---- MODULE Spec2Model ----
(***************************************************************************)
(* Model of the network analysis engine of RugCheckerX                     *)
(* (src/network-analyzer.js): the graph store (addNode, _addConnection),   *)
(* the bounded traversal (_analyzeNodeConnections), token discovery, the   *)
(* early-participant pass, the risk scorers and the final aggregation.     *)
(*                                                                         *)
(* Units.  JavaScript numbers are modelled by integers:                    *)
(*   - risk scores in 1/10000 (1.0 = 10000),                               *)
(*   - radius in 1/10000 (15 = 150000),                                    *)
(*   - amounts and link weights in 1/1000 (1 XRP = 1000),                  *)
(*   - NaN by the sentinel NaN, with the IEEE rules for comparison,        *)
(*     Math.max/Math.min and the || operator written out.                  *)
(***************************************************************************)
EXTENDS Integers, Sequences, FiniteSets, TLC

VARIABLES analyzer, ledger, request, pc, stack, hist, tick

\* tick[r] flips each time a continuation of run r is resumed
vars == <<analyzer, ledger, request, pc, stack, hist, tick>>

(***************************************************************************)
(* JavaScript number helpers                                               *)
(***************************************************************************)
NaN == -2000000000

IsNaN(x) == x = NaN

\* a > b and a < b in JavaScript: false as soon as one side is NaN
jsGt(a, b) == (~IsNaN(a)) /\ (~IsNaN(b)) /\ a > b

jsLt(a, b) == (~IsNaN(a)) /\ (~IsNaN(b)) /\ a < b

\* a + b
jsAdd(a, b) == IF IsNaN(a) \/ IsNaN(b) THEN NaN ELSE a + b

\* Math.max(a, b)
jsMax(a, b) == IF IsNaN(a) \/ IsNaN(b) THEN NaN ELSE IF a >= b THEN a ELSE b

\* v || d for a number v: 0 and NaN are falsy
jsOr(v, d) == IF v = 0 \/ IsNaN(v) THEN d ELSE v

Min2(a, b) == IF a <= b THEN a ELSE b

Max2(a, b) == IF a >= b THEN a ELSE b

(***************************************************************************)
(* Configuration (config.js)                                               *)
(***************************************************************************)
One == 10000            \* the risk score 1.0

W1 == 1000              \* the link weight / amount 1

R1 == 10000             \* the radius 1

ANALYSIS_DEFAULTS_maxDepth == 2

ANALYSIS_DEFAULTS_maxNodes == 100

\* the known-high-risk list, here two of its entries
HIGH_RISK_ADDRESSES == {"rH", "rG"}

\* address.split(':')[0]: the id up to the first ':'
Base(id) ==
    CASE id = "rH:7" -> "rH"
      [] id = "rB:3" -> "rB"
      [] OTHER -> id

IsKnownHighRisk(id) == Base(id) \in HIGH_RISK_ADDRESSES

(***************************************************************************)
(* Graph store                                                             *)
(***************************************************************************)
NoEnh ==
    [activityRisk |-> 0, ageRisk |-> 0, transactionVolumeRisk |-> 0,
     trustlineRisk |-> 0, type |-> "none", trustlinePosition |-> 0,
     creatorConnection |-> FALSE, suspiciousConnectionsCount |-> 0]

NoInteraction ==
    [paymentCount |-> 0, tokenTransfers |-> 0, totalValue |-> 0,
     firstInteractionTime |-> 0, small |-> 0, large |-> 0,
     trustRelationship |-> FALSE]

\* the properties object handed to addNode, every absent key at its
\* "undefined" value
NodeProps ==
    [riskLevel |-> 0, radius |-> 0, earlyParticipant |-> FALSE,
     earlyTxInfo |-> 0, isHighRisk |-> FALSE, isCreatorWallet |-> FALSE,
     hasEnh |-> FALSE, enh |-> NoEnh, hasInteraction |-> FALSE,
     interaction |-> NoInteraction, pattern |-> "none", issuer |-> "",
     name |-> "", earlyParticipantCount |-> 0]

MkNode(id, type, props) ==
    [id |-> id, type |-> type, riskLevel |-> props.riskLevel,
     radius |-> props.radius, earlyParticipant |-> props.earlyParticipant,
     earlyTxInfo |-> props.earlyTxInfo, isHighRisk |-> props.isHighRisk,
     isCreatorWallet |-> props.isCreatorWallet, hasEnh |-> props.hasEnh,
     enh |-> props.enh, hasInteraction |-> props.hasInteraction,
     interaction |-> props.interaction, pattern |-> props.pattern,
     issuer |-> props.issuer, name |-> props.name,
     earlyParticipantCount |-> props.earlyParticipantCount]

NodeIds(an) == {an.nodes[i].id : i \in 1..Len(an.nodes)}

\* nodes.find(node => node.id === id): index of the first match, 0 if none
FindNode(an, id) ==
    IF \E i \in 1..Len(an.nodes) : an.nodes[i].id = id
    THEN CHOOSE i \in 1..Len(an.nodes) :
            /\ an.nodes[i].id = id
            /\ \A j \in 1..(i-1) : an.nodes[j].id # id
    ELSE 0

\* a store that pushes without looking for the id
addNode_append(an, id, type, props) ==
    [an EXCEPT !.nodes = Append(an.nodes, MkNode(id, type, props)),
               !.nodeCount = an.nodeCount + 1]

\* an addNode that replaces the node already stored under the id
addNode_overwrite(an, id, type, props) ==
    LET i == FindNode(an, id) IN
    IF i # 0
    THEN [an EXCEPT !.nodes[i] = MkNode(id, type, props)]
    ELSE [an EXCEPT !.nodes = Append(an.nodes, MkNode(id, type, props)),
                    !.nodeCount = an.nodeCount + 1]

addNode(an, id, type, props) ==
    LET i == FindNode(an, id) IN
    IF i # 0
    THEN IF props.earlyParticipant
         THEN [an EXCEPT !.nodes[i].earlyParticipant = TRUE,
                         !.nodes[i].earlyTxInfo = props.earlyTxInfo,
                         !.nodes[i].radius =
                             jsMax(an.nodes[i].radius, jsOr(props.radius, 10 * R1))]
         ELSE an
    ELSE [an EXCEPT !.nodes = Append(an.nodes, MkNode(id, type, props)),
                    !.nodeCount = an.nodeCount + 1]

\* a lookup that matches the orientation of the call only
FindLink_directed(an, source, target) ==
    LET match(l) == l.source = source /\ l.target = target
    IN IF \E i \in 1..Len(an.links) : match(an.links[i])
       THEN CHOOSE i \in 1..Len(an.links) :
               /\ match(an.links[i])
               /\ \A j \in 1..(i-1) : ~match(an.links[j])
       ELSE 0

\* links.find(...): index of the first link joining source and target in
\* either orientation, 0 if none
FindLink(an, source, target) ==
    LET match(l) == \/ (l.source = source /\ l.target = target)
                    \/ (l.source = target /\ l.target = source)
    IN IF \E i \in 1..Len(an.links) : match(an.links[i])
       THEN CHOOSE i \in 1..Len(an.links) :
               /\ match(an.links[i])
               /\ \A j \in 1..(i-1) : ~match(an.links[j])
       ELSE 0

\* a merge that overwrites the flag with the one submitted
MergeLink_overwrite(old, props) ==
    [old EXCEPT !.value = jsMax(old.value, jsOr(props.value, W1)),
                !.suspicious = props.suspicious]

\* the update of an existing link
MergeLink(old, props) ==
    [old EXCEPT !.value = jsMax(old.value, jsOr(props.value, W1)),
                !.suspicious = old.suspicious \/ props.suspicious]

\* properties: [value, suspicious, transactionType]
_addConnection(an, source, target, props) ==
    IF source \notin NodeIds(an) \/ target \notin NodeIds(an)
    THEN an
    ELSE LET i == FindLink(an, source, target) IN
         IF i # 0
         THEN [an EXCEPT !.links[i] = MergeLink(an.links[i], props)]
         ELSE [an EXCEPT !.links = Append(an.links,
                             [source |-> source, target |-> target,
                              value |-> jsOr(props.value, W1),
                              suspicious |-> props.suspicious,
                              transactionType |-> props.transactionType,
                              \* properties.highRiskConnection is not copied
                              highRiskConnection |-> FALSE]),
                         !.linkCount = an.linkCount + 1,
                         !.metrics.suspiciousConnections =
                             IF props.suspicious
                             THEN an.metrics.suspiciousConnections + 1
                             ELSE an.metrics.suspiciousConnections]

\* the state reset() leaves
reset ==
    [visitedNodes |-> {}, analyzedTokens |-> {}, findings |-> <<>>,
     metrics |-> [riskScore |-> 0, connectedWallets |-> 0,
                  connectedTokens |-> 0, suspiciousConnections |-> 0],
     nodes |-> <<>>, links |-> <<>>, mainNode |-> "",
     maxDepth |-> ANALYSIS_DEFAULTS_maxDepth,
     maxNodes |-> ANALYSIS_DEFAULTS_maxNodes,
     nodeCount |-> 0, linkCount |-> 0, totalRisk |-> 0]


(***************************************************************************)
(* History (auxiliary) state shared by the specifications                  *)
(***************************************************************************)
Runs == {1, 2}

StoreIds == {"rS", "rB", "rH"}

StorePairs == {{a, b} : a \in StoreIds, b \in StoreIds}

\* the store specification consults no ledger
NoLedger ==
    [seed |-> "rS", stx |-> "none", btx |-> "none", ctx |-> "none", stok |-> "none",
     btok |-> "none", seq |-> 0, fail |-> "ok"]

NoRequest == [address |-> "", given |-> FALSE, maxDepth |-> 0, now |-> 0]

HistInit ==
    [roots |-> <<>>, calls |-> 0,
     \* the first ledger request of each step, as <<run, command, account>>
     asked |-> {},
     \* the neighbors the loop over connectedWallets added as nodes: the run,
     \* the account being expanded, the neighbor and its immediate risk
     found |-> {},
     \* whether a run was requested while another one was under way, and
     \* what each run returned: the main node and the node ids of its graph
     overlap |-> FALSE,
     \* the last addNode on an id already stored: its arguments and the
     \* analyzer before the call
     last |-> [given |-> FALSE, id |-> "", props |-> NodeProps, before |-> reset],
     \* the steps of analyzeNetwork each run has begun, in order
     phases |-> [r \in Runs |-> <<>>],
     result |-> [r \in Runs |-> [given |-> FALSE, main |-> "", ids |-> {},
                                 nodes |-> <<>>, links |-> <<>>, riskScore |-> 0]],
     subW |-> [p \in StorePairs |-> {}],
     subS |-> [p \in StorePairs |-> {}],
     subO |-> [p \in StorePairs |-> {}]]

(***************************************************************************)
(* SpecStore: the graph store under arbitrary call sequences               *)
(***************************************************************************)
MaxCalls == 4

\* property objects callers hand to addNode
StoreProps ==
    { [NodeProps EXCEPT !.riskLevel = 2000, !.radius = 8 * R1],
      [NodeProps EXCEPT !.riskLevel = 7000, !.radius = 12 * R1,
                        !.earlyParticipant = TRUE, !.earlyTxInfo = 1],
      [NodeProps EXCEPT !.riskLevel = 6900, !.radius = 0,
                        !.earlyParticipant = TRUE, !.earlyTxInfo = 2],
      [NodeProps EXCEPT !.riskLevel = 4000, !.radius = 10 * R1,
                        !.name = "MOON", !.issuer = "rS"] }

StoreWeights == {0, 2 * W1, 5 * W1}

\* the (source, target) arguments callers hand to _addConnection
StoreEnds == {<<"rS", "rB">>, <<"rB", "rS">>, <<"rB", "rH">>, <<"rH", "rH">>}

\* the store right after analyzeNetwork inserted the seed
StoreInit ==
    /\ analyzer = addNode([reset EXCEPT !.mainNode = "rS"], "rS", "wallet",
                          [NodeProps EXCEPT !.radius = 15 * R1])
    /\ ledger = NoLedger
    /\ request = [r \in Runs |-> NoRequest]
    /\ pc = [r \in Runs |-> "store"]
    /\ stack = [r \in Runs |-> <<>>]
    /\ hist = HistInit
    /\ tick = [r \in Runs |-> 0]

StoreAddNode(id, type, props) ==
    /\ pc[1] = "store"
    /\ hist.calls < MaxCalls
    /\ analyzer' = addNode(analyzer, id, type, props)
    /\ hist' = [hist EXCEPT !.calls = @ + 1]
    /\ UNCHANGED <<ledger, request, pc, stack, tick>>

StoreAddConnection(source, target, value, suspicious) ==
    /\ pc[1] = "store"
    /\ hist.calls < MaxCalls
    /\ analyzer' = _addConnection(analyzer, source, target,
                       [value |-> value, suspicious |-> suspicious,
                        transactionType |-> "Payment"])
    /\ LET both == source \in NodeIds(analyzer) /\ target \in NodeIds(analyzer)
           p == {source, target}
       IN hist' = [hist EXCEPT
                      !.calls = @ + 1,
                      !.subW[p] = IF both THEN @ \cup {value} ELSE @,
                      !.subS[p] = IF both THEN @ \cup {suspicious} ELSE @,
                      !.subO[p] = IF both THEN @ \cup {source} ELSE @]
    /\ UNCHANGED <<ledger, request, pc, stack, tick>>

StoreNext ==
    \/ \E id \in StoreIds, props \in StoreProps :
          StoreAddNode(id, IF props.name = "" THEN "wallet" ELSE "token", props)
    \/ \E e \in StoreEnds, w \in StoreWeights, b \in BOOLEAN :
          StoreAddConnection(e[1], e[2], w, b)

SpecStore == StoreInit /\ [][StoreNext]_vars

(***************************************************************************)
(* SpecReAdd: calls of addNode alone, those on an id already stored being  *)
(* logged with their arguments.                                            *)
(***************************************************************************)
ReAddNode(id, type, props) ==
    /\ pc[1] = "store"
    /\ hist.calls < MaxCalls
    /\ id \in NodeIds(analyzer)
    /\ analyzer' = addNode(analyzer, id, type, props)
    /\ hist' = [hist EXCEPT !.calls = @ + 1,
                            !.last = [given |-> TRUE, id |-> id, props |-> props,
                                      before |-> analyzer]]
    /\ UNCHANGED <<ledger, request, pc, stack, tick>>

ReAddNext ==
    \/ \E id \in StoreIds, props \in StoreProps :
          /\ id \notin NodeIds(analyzer)
          /\ StoreAddNode(id, IF props.name = "" THEN "wallet" ELSE "token", props)
    \/ \E id \in StoreIds, props \in StoreProps :
          ReAddNode(id, IF props.name = "" THEN "wallet" ELSE "token", props)

SpecReAdd == StoreInit /\ [][ReAddNext]_vars

SetMax(S) == CHOOSE x \in S : \A y \in S : y <= x

LinksOf(an, p) ==
    {i \in 1..Len(an.links) : {an.links[i].source, an.links[i].target} = p}


(***************************************************************************)
(* Ledger data source (xrpl-service.js), as fixtures                       *)
(***************************************************************************)
Accts == {"rS", "rB", "rC", "rD", "rH", "rG", "rX"}

\* a validation that accepts every string
isValidAddress_any(address) == TRUE

\* isValidAddress: the addresses matching /^r[A-Za-z0-9]{24,34}$/
isValidAddress(address) == address \in Accts

\* tx.Amount: absent, a string of drops (xrp * 10^6 + sub, or unparsable),
\* or an object {value, currency}
NoAmount == [k |-> "none", xrp |-> 0, sub |-> 0, bad |-> FALSE, currency |-> ""]

Drops(xrp, sub) == [k |-> "drops", xrp |-> xrp, sub |-> sub, bad |-> FALSE, currency |-> ""]

BadDrops == [k |-> "drops", xrp |-> 0, sub |-> 0, bad |-> TRUE, currency |-> ""]

\* {value: "<xrp>", currency}; the value "abc" when bad
Iou(xrp, currency) == [k |-> "iou", xrp |-> xrp, sub |-> 0, bad |-> FALSE, currency |-> currency]

BadIou(currency) == [k |-> "iou", xrp |-> 0, sub |-> 0, bad |-> TRUE, currency |-> currency]

\* {currency} without a value
IouNoValue(currency) == [k |-> "iouNoValue", xrp |-> 0, sub |-> 0, bad |-> FALSE, currency |-> currency]

NoLimit == [present |-> FALSE, issuer |-> "", currency |-> ""]

Pay(account, destination, amount, date) ==
    [TransactionType |-> "Payment", Account |-> account,
     Destination |-> destination, Amount |-> amount, LimitAmount |-> NoLimit,
     date |-> date, memoHits |-> 0]

Trust(account, issuer, currency, date) ==
    [TransactionType |-> "TrustSet", Account |-> account, Destination |-> "",
     Amount |-> NoAmount,
     LimitAmount |-> [present |-> TRUE, issuer |-> issuer, currency |-> currency],
     date |-> date, memoHits |-> 0]

Token(currency, amount) == [currency |-> currency, amount |-> amount]

\* one hour in the unit of tx.date as the code reads it (milliseconds)
Hour == 3600000

T0 == 194 * Hour

\* n copies of x
RECURSIVE Rep(_, _)
Rep(n, x) == IF n = 0 THEN <<>> ELSE <<x>> \o Rep(n - 1, x)

Take(seq, n) == SubSeq(seq, 1, Min2(n, Len(seq)))

RECURSIVE Reverse(_)
Reverse(seq) == IF seq = <<>> THEN <<>> ELSE Reverse(Tail(seq)) \o <<Head(seq)>>

\* account_tx of the seed s, most recent first
SeedTxs(c, s) ==
    CASE c = "none"   -> <<>>
      [] c = "payB"   -> <<Pay(s, "rB", Drops(50, 0), T0)>>
      [] c = "payBC"  -> <<Pay(s, "rC", Drops(5, 500000), T0 + 30 * Hour),
                           Pay(s, "rB", Drops(50, 0), T0)>>
      [] c = "payH"   -> <<Pay(s, "rH", Drops(50, 0), T0)>>
      [] c = "payHGB" -> <<Pay(s, "rB", Drops(2000, 0), T0 + 2 * Hour),
                           Pay(s, "rG", Drops(7, 0), T0 + Hour),
                           Pay(s, "rH", Drops(50, 0), T0)>>
      [] c = "susp"   -> <<Trust(s, "rC", "USD", T0 + 200 * Hour),
                           Pay(s, "rB", Drops(20000, 0), T0)>>
      [] c = "odd"    -> <<Pay(s, "rB", Iou(0, "USD"), 0),
                           Pay(s, s, Drops(1, 0), T0 + 3 * Hour),
                           Pay(s, "rB", Drops(-5, 0), T0 + 2 * Hour),
                           Pay(s, "rB", BadDrops, T0 + Hour),
                           Pay(s, "rC", IouNoValue("USD"), T0)>>
      [] c = "tag"    -> <<Pay(s, "rH:7", Drops(50, 0), T0 + Hour),
                           Pay(s, "rB", Drops(1, 999999), T0)>>
      [] c = "early"  -> <<Pay(s, "rX", Iou(100, "MOON"), T0 + 50 * Hour),
                           Trust("rH", s, "MOON", T0 + 3 * Hour),
                           Trust("rC", s, "MOON", T0 + 2 * Hour),
                           Pay(s, "rB", Drops(50, 0), T0 + Hour),
                           Trust("rB", s, "MOON", T0)>>

SeedTxChoices == {"none", "payB", "payBC", "payH", "payHGB", "susp", "odd", "tag", "early"}

BTxs(c, s) ==
    CASE c = "none" -> <<>>
      [] c = "busy" -> Rep(9, Pay("rB", s, Drops(10, 0), T0 + 400 * Hour))
                         \o <<Pay(s, "rB", Drops(50, 0), T0)>>
      [] c = "fan"  -> <<Pay("rB", "rX", Drops(200000, 0), T0 + 5 * Hour),
                         Pay("rB", "rH", Drops(30000, 0), T0 + 4 * Hour),
                         Pay("rB", "rC", Drops(3, 0), T0 + 3 * Hour),
                         Pay(s, "rB", Drops(50, 0), T0)>>
      [] c = "hold" -> <<Trust("rX", "rB", "SAFE", T0 + 6 * Hour),
                         Pay(s, "rB", Drops(50, 0), T0)>>

BTxChoices == {"none", "busy", "fan"}

CTxs(c, s) ==
    CASE c = "none" -> <<>>
      [] c = "back" -> <<Pay("rC", "rH", Drops(30000, 0), T0 + 40 * Hour),
                         Pay("rC", "rH", Drops(2, 0), T0 + 35 * Hour),
                         Pay("rC", "rB", Drops(2, 0), T0 + 31 * Hour),
                         Pay(s, "rC", Drops(5, 500000), T0 + 30 * Hour)>>

      [] c = "deep" -> <<Pay("rC", "rD", Drops(12, 0), T0 + 45 * Hour),
                         Pay(s, "rC", Drops(5, 500000), T0 + 30 * Hour)>>

CTxChoices == {"none", "back", "deep"}

\* the number of currencies a "mint" account has issued
MintCount == 50

\* the tokens of a "mint" account
Mint == [i \in 1..MintCount |-> Token("T" \o ToString(i), 1000)]

\* getIssuedTokens of the seed and of rB
SeedTokens(c) ==
    CASE c = "none"  -> <<>>
      [] c = "moon"  -> <<Token("MOON", 5)>>
      [] c = "moon9" -> <<Token("MOON", 9)>>
      [] c = "five"  -> <<Token("MOON", 5), Token("SAFE", 5), Token("USD", 2),
                          Token("EUR", 2), Token("GBP", 1000)>>
      [] c = "two"   -> <<Token("xMoonx", 9), Token("USD", 1000000), Token("xMoonx", 9)>>
      [] c = "neg"   -> <<Token("USD", -100000), Token("EUR", NaN)>>

      [] c = "mint"  -> Mint

SeedTokenChoices == {"none", "moon", "moon9", "five", "two", "neg", "mint"}

BTokens(c) ==
    CASE c = "none" -> <<>>
      [] c = "safe" -> <<Token("SAFE", 3)>>
      [] c = "many" -> <<Token("USD", 500), Token("EUR", 500), Token("GBP", 500),
                         Token("JPY", 500), Token("CHF", 500)>>

      [] c = "mint" -> Mint

BTokenChoices == {"none", "safe", "many", "mint"}

\* the requests that fail, as <<command, account>>
FailSets(c) ==
    CASE c = "ok"      -> {}
      [] c = "txB"     -> {<<"account_tx", "rB">>}
      [] c = "txC"     -> {<<"account_tx", "rC">>}
      [] c = "infoB"   -> {<<"account_info", "rB">>}
      [] c = "tokS"    -> {<<"account_currencies", "rS">>, <<"account_currencies", "rH">>}
      [] c = "linesS"  -> {<<"account_lines", "rS">>, <<"account_lines", "rH">>}
      [] c = "all"     -> {"account_tx", "account_info", "account_currencies",
                           "account_lines"} \X Accts

FailChoices == {"ok", "txB", "txC", "infoB", "tokS", "linesS", "all"}

\* a ledger: the seed address and one choice per dimension
MkLedger(s, stx, btx, ctx, stok, btok, seq, fail) ==
    [seed |-> s, stx |-> stx, btx |-> btx, ctx |-> ctx, stok |-> stok,
     btok |-> btok, seq |-> seq, fail |-> fail]

\* a request fails for an account the ledger has no entry for (malformed
\* account) and for the outages of the fixture
Failing(L, command, account) ==
    account \notin Accts \/ <<command, account>> \in FailSets(L.fail)

\* the transactions of an account, most recent first
TxsOf(L, a) ==
    CASE a = L.seed -> SeedTxs(L.stx, L.seed)
      [] a = "rB" /\ a # L.seed -> BTxs(L.btx, L.seed)
      [] a = "rC" /\ a # L.seed -> CTxs(L.ctx, L.seed)
      [] a = "rD" /\ L.ctx = "deep" -> <<Pay("rD", "rX", Drops(4, 0), T0 + 60 * Hour),
                                         Pay("rC", "rD", Drops(12, 0), T0 + 45 * Hour)>>
      [] a = "rH" /\ a # L.seed -> <<Pay("rH", "rG", Drops(90000, 0), T0 + Hour),
                                     Pay("rH", "rG", Drops(90000, 0), T0)>>
      [] OTHER -> <<>>

Ok(v) == [ok |-> TRUE, v |-> v]

Err == [ok |-> FALSE, v |-> <<>>]

\* xrplService.getAccountTransactions(address, limit)
getAccountTransactions(L, address, limit) ==
    IF Failing(L, "account_tx", address) THEN Err
    ELSE Ok(Take(TxsOf(L, address), limit))

\* xrplService.fetchRecentTransactions(address, limit).transactions
fetchRecentTransactions(L, address, limit) ==
    IF Failing(L, "account_tx", address) THEN Err
    ELSE Ok(Take(TxsOf(L, address), limit))

\* xrplService.fetchEarlyTransactions(address, limit).transactions, oldest first
fetchEarlyTransactions(L, address, limit) ==
    IF Failing(L, "account_tx", address) THEN Err
    ELSE Ok(Take(Reverse(TxsOf(L, address)), limit))

\* xrplService.getIssuedTokens(address)
getIssuedTokens(L, address) ==
    IF Failing(L, "account_currencies", address) THEN Err
    ELSE Ok(CASE address = L.seed -> SeedTokens(L.stok)
              [] address = "rB" /\ address # L.seed -> BTokens(L.btok)
              [] OTHER -> <<>>)

\* xrplService.getAccountInfo(address): account_data, of which the code
\* reads Sequence (and a lower-case sequence the ledger never sends)
getAccountInfo(L, address) ==
    IF Failing(L, "account_info", address) THEN Err
    ELSE Ok([Sequence |-> IF address = "rB" THEN L.seq
                          ELSE IF address = "rC" THEN 50 ELSE 5000,
             sequence |-> 0])

SeqChoices == {0, 500, 20000}

\* xrplService.getAccountTrustlines(address): account_lines, in ledger order
getAccountTrustlines(L, address) ==
    IF Failing(L, "account_lines", address) THEN Err
    ELSE Ok(IF address = L.seed /\ L.stx = "early"
            THEN <<[currency |-> "MOON", account |-> "rB"],
                   [currency |-> "USD", account |-> "rX"],
                   [currency |-> "MOON", account |-> "rC"],
                   [currency |-> "MOON", account |-> "rH"]>>
            ELSE <<>>)


(***************************************************************************)
(* Risk scorers                                                            *)
(***************************************************************************)
\* _normalizeAmount, in 1/1000
_normalizeAmount(amount) ==
    CASE amount.k = "none"  -> 0
      [] amount.k = "drops" -> IF amount.bad THEN NaN
                               ELSE amount.xrp * 1000 + (amount.sub \div 1000)
      [] amount.k = "iou"   -> IF amount.bad THEN NaN ELSE amount.xrp * 1000
      [] OTHER              -> W1

\* amountStr.endsWith('000000') || amountStr.endsWith('999999')
EndsRound(amount) ==
    /\ amount.k = "drops"
    /\ ~amount.bad
    /\ \/ (amount.sub = 0 /\ amount.xrp # 0)
       \/ amount.sub = 999999

RISK_FACTORS_transaction_largeAmount_threshold == 10000

_calculateTransactionRisk(tx) ==
    LET amount == _normalizeAmount(tx.Amount)
        thr == RISK_FACTORS_transaction_largeAmount_threshold * W1
        large == IF tx.Amount.k # "none" /\ jsGt(amount, thr)
                 THEN Min2(5000, (amount - thr) \div (thr \div 5000))
                 ELSE 0
        odd == IF EndsRound(tx.Amount) THEN 4000 ELSE 0
        memo == 6000 * tx.memoHits
    IN Min2(large + odd + memo, One)

\* lowerCurrency.includes(flag) for one of the flags of
\* RISK_FACTORS.token.suspicious_name
HasSuspiciousName(currency) == currency \in {"MOON", "xMoonx", "SAFE"}

\* token.amount is a whole number (or NaN when it does not parse)
_hasTokenSuspiciousPattern(token) ==
    \/ HasSuspiciousName(token.currency)
    \/ /\ token.amount # 0
       /\ ~IsNaN(token.amount)
       /\ token.amount > 0
       /\ (token.amount % 1000000000) \in {0, 999999999}

RISK_FACTORS_token_limitedHolders_threshold == 10

\* the risk of a token before the cap
TokenRiskSum(an, token, issuer) ==
    LET name == IF HasSuspiciousName(token.currency) THEN 4000 ELSE 0
        thr == RISK_FACTORS_token_limitedHolders_threshold
        few == IF jsLt(token.amount, thr)
               THEN 8000 - (8000 * token.amount) \div thr
               ELSE 0
        i == FindNode(an, issuer)
        iss == IF i # 0 /\ an.nodes[i].riskLevel # 0
               THEN (an.nodes[i].riskLevel * 3) \div 10
               ELSE 0
    IN name + few + iss

\* a scorer without the cap
_calculateTokenRisk_uncapped(an, token, issuer) == TokenRiskSum(an, token, issuer)

\* Math.min(riskScore, 1.0)
_calculateTokenRisk(an, token, issuer) == Min2(TokenRiskSum(an, token, issuer), One)

\* the addresses _getConnectedAddresses returns for a transaction list
ConnectedOf(txs, address) ==
    UNION { ({txs[i].Destination} \ {"", address})
              \cup ({txs[i].Account} \ {"", address})
              \cup (IF txs[i].TransactionType = "TrustSet" /\ txs[i].LimitAmount.present
                    THEN {txs[i].LimitAmount.issuer} \ {""} ELSE {})
            : i \in 1..Len(txs) }

_getConnectedAddresses(L, address) ==
    LET r == getAccountTransactions(L, address, 50)
    IN IF r.ok THEN ConnectedOf(r.v, address) ELSE {}

RISK_FACTORS_wallet_lowActivity_threshold == 10

RISK_FACTORS_wallet_manyIssuances_threshold == 3

\* _calculateWalletRisk: the score, 5000 (0.5) from the catch block
_calculateWalletRisk(an, L, address) ==
    IF IsKnownHighRisk(address) THEN One
    ELSE
    LET info == getAccountInfo(L, address)
        txs == getAccountTransactions(L, address, 10)
        toks == getIssuedTokens(L, address)
        age == IF info.ok /\ info.v.sequence # 0
               THEN IF info.v.sequence > 60000000 THEN 3200
                    ELSE IF info.v.sequence > 40000000 THEN 1600 ELSE 0
               ELSE 0
        txCount == Len(txs.v)
        low == IF txCount < RISK_FACTORS_wallet_lowActivity_threshold
               THEN 3000 - (3000 * txCount) \div RISK_FACTORS_wallet_lowActivity_threshold
               ELSE 0
        n == Len(toks.v)
        many == IF n > RISK_FACTORS_wallet_manyIssuances_threshold
                THEN Min2(5000, 1000 * (n - RISK_FACTORS_wallet_manyIssuances_threshold))
                ELSE 0
        \* RISK_FACTORS.wallet.suspiciousPattern is undefined: reading its
        \* weight throws
        throws == \E i \in 1..n : _hasTokenSuspiciousPattern(toks.v[i])
        k == Cardinality({a \in _getConnectedAddresses(L, address) : IsKnownHighRisk(a)})
        conn == IF k > 0 THEN Min2(7000, 2000 * k) ELSE 0
    IN IF ~info.ok \/ ~txs.ok \/ ~toks.ok \/ throws
       THEN 5000
       ELSE Min2(age + low + many + conn, One)

SeqMax(seq) == CHOOSE x \in {seq[i] : i \in 1..Len(seq)} : \A j \in 1..Len(seq) : seq[j] <= x

SeqMin(seq) == CHOOSE x \in {seq[i] : i \in 1..Len(seq)} : \A j \in 1..Len(seq) : seq[j] >= x

RECURSIVE SumAmounts(_)
SumAmounts(txs) ==
    IF txs = <<>> THEN 0
    ELSE jsAdd(IF Head(txs).Amount.k # "none" THEN _normalizeAmount(Head(txs).Amount) ELSE 0,
               SumAmounts(Tail(txs)))

\* the position (from 0) of the first trust line of the account among
\* the lines of the currency, -1 if none
PositionIn(lines, currency, address) ==
    LET idx == {i \in 1..Len(lines) : lines[i].currency = currency}
        hit == {i \in idx : lines[i].account = address}
    IN IF hit = {} THEN -1
       ELSE LET first == CHOOSE i \in hit : \A j \in hit : i <= j
            IN Cardinality({j \in idx : j < first})

\* _calculateWalletConnectionRisk
_calculateWalletConnectionRisk(an, L, address) ==
    LET info == getAccountInfo(L, address)
        sq == info.v.Sequence
        ageRisk == IF ~info.ok THEN 5000
                   ELSE IF sq = 0 THEN 0
                   ELSE IF sq < 100 THEN 1000
                   ELSE IF sq < 1000 THEN 3000
                   ELSE IF sq < 10000 THEN 5000 ELSE 8000
        recent == fetchRecentTransactions(L, address, 50)
        txs == recent.v
        stamps == SelectSeq([i \in 1..Len(txs) |-> txs[i].date], LAMBDA d : d # 0)
        \* the mean gap of the descending timestamps, in the unit of tx.date
        avg == IF Len(stamps) >= 2
               THEN (SeqMax(stamps) - SeqMin(stamps)) \div (Len(stamps) - 1)
               ELSE 0
        activityRisk == IF ~recent.ok THEN 5000
                        ELSE IF Len(txs) = 0 \/ Len(stamps) < 2 THEN 0
                        ELSE IF avg < Hour THEN 9000
                        ELSE IF avg < 24 * Hour THEN 7000
                        ELSE IF avg < 168 * Hour THEN 4000 ELSE 2000
        totalVolume == SumAmounts(txs)
        volumeRisk == IF ~recent.ok \/ Len(txs) = 0 THEN 0
                      ELSE IF jsGt(totalVolume, 100000 * W1) THEN 8000
                      ELSE IF jsGt(totalVolume, 10000 * W1) THEN 6000
                      ELSE IF jsGt(totalVolume, 1000 * W1) THEN 4000 ELSE 2000
        suspiciousCount ==
            IF ~recent.ok THEN 0
            ELSE Cardinality({i \in 1..Len(txs) : _calculateTransactionRisk(txs[i]) > 7000})
        lines == getAccountTrustlines(L, an.mainNode)
        mtoks == getIssuedTokens(L, an.mainNode)
        found == IF lines.ok /\ mtoks.ok
                 THEN {i \in 1..Len(mtoks.v) :
                          PositionIn(lines.v, mtoks.v[i].currency, address) # -1}
                 ELSE {}
        position == IF found = {} THEN -1
                    ELSE PositionIn(lines.v,
                             mtoks.v[CHOOSE i \in found : \A j \in found : i <= j].currency,
                             address)
        trustlineRisk == IF position = -1 THEN 0
                         ELSE IF position < 5 THEN 8000
                         ELSE IF position < 20 THEN 6000
                         ELSE IF position < 100 THEN 4000 ELSE 2000
        early == fetchEarlyTransactions(L, an.mainNode, 20)
        creatorConnection ==
            /\ position # -1 /\ position < 5 /\ early.ok
            /\ \E i \in 1..Len(early.v) :
                  early.v[i].Destination = address \/ early.v[i].Account = address
        type == IF recent.ok /\ Len(stamps) >= 2
                THEN IF avg < Hour THEN "high-activity"
                     ELSE IF avg < 24 * Hour THEN "active"
                     ELSE IF avg < 168 * Hour
                     THEN (IF info.ok /\ sq # 0
                           THEN IF sq < 1000 THEN "established"
                                ELSE IF sq < 10000 THEN "standard" ELSE "new"
                           ELSE "standard")
                     ELSE "inactive"
                ELSE IF info.ok /\ sq # 0
                THEN IF sq < 1000 THEN "established"
                     ELSE IF sq < 10000 THEN "standard" ELSE "new"
                ELSE "standard"
    IN [activityRisk |-> activityRisk, ageRisk |-> ageRisk,
        transactionVolumeRisk |-> volumeRisk, trustlineRisk |-> trustlineRisk,
        type |-> type, trustlinePosition |-> position + 1,
        creatorConnection |-> creatorConnection,
        suspiciousConnectionsCount |-> suspiciousCount]

\* _analyzeBuyingPattern(interactionData).pattern
_analyzeBuyingPattern(d) ==
    LET p1 == IF d.small > 5 THEN "frequent_small_buys" ELSE "normal"
        p2 == IF d.large > 1 /\ d.paymentCount < 5 THEN "whale_pattern" ELSE p1
        \* tokenTransfers / paymentCount > 0.8
        p3 == IF d.tokenTransfers > 0 /\ d.paymentCount > 0
                  /\ 10 * d.tokenTransfers > 8 * d.paymentCount
              THEN (IF p2 = "normal" THEN "token_focused" ELSE p2 \o "_token_focused")
              ELSE p2
        p4 == IF d.trustRelationship /\ d.paymentCount > 3 /\ jsGt(d.totalValue, 500 * W1)
              THEN (IF p3 = "normal" THEN "rapid_trust_activity" ELSE p3 \o "_with_trust")
              ELSE p3
    IN p4


(***************************************************************************)
(* Traversal                                                               *)
(***************************************************************************)
\* a setter that stores the requested depth as it is
setMaxDepth_unclamped(depth) == depth

\* setMaxDepth: Math.min(Math.max(1, depth), 3)
setMaxDepth(depth) == Min2(Max2(1, depth), 3)

NewInteraction(tx, now, trust) ==
    [NoInteraction EXCEPT !.firstInteractionTime = IF tx.date # 0 THEN tx.date ELSE now,
                          !.trustRelationship = trust]

\* the loop over the fetched transactions of _analyzeNodeConnections;
\* acc = [an, cw, wi]: the analyzer, connectedWallets in insertion order,
\* walletInteractions
RECURSIVE ProcessTxs(_, _, _, _)
ProcessTxs(acc, address, txs, now) ==
    IF txs = <<>> THEN acc
    ELSE
    LET tx == Head(txs)
        an == acc.an
        txRisk == _calculateTransactionRisk(tx)
        d == tx.Destination
        iss == tx.LimitAmount.issuer
        add(w) == IF \E i \in 1..Len(acc.cw) : acc.cw[i] = w THEN acc.cw
                  ELSE Append(acc.cw, w)
        txAmount == _normalizeAmount(tx.Amount)
        next ==
          IF tx.TransactionType = "Payment" /\ d # ""
          THEN IF d \in an.visitedNodes THEN acc
               ELSE LET old == IF d \in DOMAIN acc.wi THEN acc.wi[d]
                               ELSE NewInteraction(tx, now, FALSE)
                        upd == [old EXCEPT
                                  !.paymentCount = @ + 1,
                                  !.tokenTransfers =
                                      IF tx.Amount.k \in {"iou", "iouNoValue"}
                                         /\ tx.Amount.currency # ""
                                      THEN @ + 1 ELSE @,
                                  !.totalValue = jsAdd(@, txAmount),
                                  !.small = IF jsLt(txAmount, 100 * W1) THEN @ + 1 ELSE @,
                                  !.large = IF ~jsLt(txAmount, 100 * W1)
                                               /\ jsGt(txAmount, 1000 * W1)
                                            THEN @ + 1 ELSE @]
                    IN [an |-> _addConnection(an, address, d,
                                  [value |-> IF tx.Amount.k # "none" THEN txAmount ELSE W1,
                                   suspicious |-> txRisk > 7000,
                                   transactionType |-> "Payment"]),
                        cw |-> add(d),
                        wi |-> (d :> upd) @@ acc.wi]
          ELSE IF tx.TransactionType = "TrustSet" /\ tx.LimitAmount.present
          THEN IF iss # "" /\ iss \notin an.visitedNodes
               THEN [an |-> _addConnection(an, address, iss,
                                  [value |-> 3 * W1, suspicious |-> txRisk > 5000,
                                   transactionType |-> "TrustSet"]),
                     cw |-> add(iss),
                     wi |-> IF iss \in DOMAIN acc.wi
                            THEN [acc.wi EXCEPT ![iss].trustRelationship = TRUE]
                            ELSE (iss :> NewInteraction(tx, now, TRUE)) @@ acc.wi]
               ELSE acc
          ELSE acc
    IN ProcessTxs(next, address, Tail(txs), now)

TokenId(currency, address) == currency \o "-" \o address

\* one iteration of the loop over the issued tokens
AddToken(an, address, token) ==
    LET tokenId == TokenId(token.currency, address)
        tokenRisk == _calculateTokenRisk(an, token, address)
        a1 == [an EXCEPT !.analyzedTokens = @ \cup {tokenId}]
        a2 == addNode(a1, tokenId, "token",
                  [NodeProps EXCEPT !.name = token.currency, !.radius = 10 * R1,
                                    !.riskLevel = tokenRisk, !.issuer = address])
    IN IF tokenId \in an.analyzedTokens THEN an
       ELSE _addConnection(a2, address, tokenId,
                [value |-> 5 * W1, suspicious |-> tokenRisk > 7000,
                 transactionType |-> ""])

\* the loop over the issued tokens of _analyzeTokenConnections
RECURSIVE AddTokens(_, _, _)
AddTokens(an, address, toks) ==
    IF toks = <<>> \/ an.nodeCount < 0 THEN an
    ELSE AddTokens(AddToken(an, address, Head(toks)), address, Tail(toks))

_analyzeTokenConnections(an, L, address) ==
    LET issuedTokens == getIssuedTokens(L, address)
    IN IF ~issuedTokens.ok THEN an
       ELSE AddTokens([an EXCEPT !.metrics.connectedTokens = @ + Len(issuedTokens.v)],
                      address, issuedTokens.v)

IsHighRiskNode(n) == n.type = "wallet" /\ (n.isHighRisk \/ IsKnownHighRisk(n.id))

\* the pairs <<i, j>>, i < j, of 1..n in the order of the nested loops
PairsInOrder(n) ==
    LET count == (n * (n - 1)) \div 2
        \* the k-th pair
        RECURSIVE nth(_, _, _)
        nth(k, i, j) == IF k = 1 THEN <<i, j>>
                        ELSE IF j < n THEN nth(k - 1, i, j + 1)
                        ELSE nth(k - 1, i + 1, i + 2)
    IN [k \in 1..count |-> nth(k, 1, 2)]

\* apply _addConnection for each entry [a, b, props] of a list, in order
RECURSIVE Connect(_, _)
Connect(an, calls) ==
    IF calls = <<>> THEN an
    ELSE Connect(_addConnection(an, Head(calls).a, Head(calls).b, Head(calls).props),
                 Tail(calls))

\* the loop of _connectHighRiskWallets that links each high-risk wallet to
\* the main node unless a link exists already
RECURSIVE ConnectToMain(_, _)
ConnectToMain(an, ids) ==
    IF ids = <<>> THEN an
    ELSE LET id == Head(ids)
             a1 == IF id # an.mainNode /\ FindLink(an, id, an.mainNode) = 0
                   THEN _addConnection(an, an.mainNode, id,
                            [value |-> 3 * W1, suspicious |-> TRUE,
                             transactionType |-> "HighRiskMainConnection"])
                   ELSE an
         IN ConnectToMain(a1, Tail(ids))

\* |a - b| / (1000 * 60 * 60) < 24
SimilarTiming(a, b) == (IF a >= b THEN a - b ELSE b - a) < 24 * Hour

_connectRelatedWallets(an) ==
    LET wallets == SelectSeq(an.nodes,
                       LAMBDA n : n.type = "wallet" /\ n.id # an.mainNode)
        ps == PairsInOrder(Len(wallets))
        related(p) ==
            LET w1 == wallets[p[1]]
                w2 == wallets[p[2]]
            IN /\ w1.hasInteraction /\ w2.hasInteraction
               /\ ~(IsHighRiskNode(w1) /\ IsHighRiskNode(w2))
               /\ \/ SimilarTiming(w1.interaction.firstInteractionTime,
                                   w2.interaction.firstInteractionTime)
                  \/ w1.pattern = w2.pattern
        rp == SelectSeq(ps, related)
        a1 == Connect(an, [k \in 1..Len(rp) |->
                       [a |-> wallets[rp[k][1]].id, b |-> wallets[rp[k][2]].id,
                        props |-> [value |-> (3 * W1) \div 2, suspicious |-> FALSE,
                                   transactionType |-> "RelatedWallets"]]])
        eps == SelectSeq(wallets, LAMBDA n : n.earlyParticipant)
        eq == PairsInOrder(Len(eps))
        a2 == Connect(a1, [k \in 1..Len(eq) |->
                       [a |-> eps[eq[k][1]].id, b |-> eps[eq[k][2]].id,
                        props |-> [value |-> (3 * W1) \div 2,
                                   suspicious |-> eps[eq[k][1]].riskLevel > 6000
                                                  \/ eps[eq[k][2]].riskLevel > 6000,
                                   transactionType |-> "EarlyParticipants"]]])
        typeOf(id) == LET i == FindNode(a2, id) IN IF i = 0 THEN "" ELSE a2.nodes[i].type
        \* the wallet-to-token links, in link order, as <<tokenId, walletId>>
        wt == SelectSeq([k \in 1..Len(a2.links) |->
                           IF typeOf(a2.links[k].source) = "token"
                           THEN <<a2.links[k].source, a2.links[k].target>>
                           ELSE <<a2.links[k].target, a2.links[k].source>>],
                        LAMBDA e : typeOf(e[1]) = "token" /\ typeOf(e[2]) = "wallet")
        \* token ids in first-appearance order
        firsts == SelectSeq([k \in 1..Len(wt) |-> <<k, wt[k][1]>>],
                            LAMBDA e : \A j \in 1..(e[1] - 1) : wt[j][1] # e[2])
        holders(t) == SelectSeq(wt, LAMBDA e : e[1] = t)
        RECURSIVE shared(_)
        shared(ts) ==
            IF ts = <<>> THEN <<>>
            ELSE LET h == holders(Head(ts)[2])
                     hp == PairsInOrder(Len(h))
                     cs == SelectSeq([k \in 1..Len(hp) |->
                                        [a |-> h[hp[k][1]][2], b |-> h[hp[k][2]][2],
                                         props |-> [value |-> W1, suspicious |-> FALSE,
                                                    transactionType |-> "SharedToken"]]],
                                     LAMBDA c : c.a # an.mainNode /\ c.b # an.mainNode)
                 IN (IF Len(h) >= 2 THEN cs ELSE <<>>) \o shared(Tail(ts))
    IN IF Len(wallets) < 2 THEN an ELSE Connect(a2, shared(firsts))

_connectHighRiskWallets(an) ==
    LET hr == SelectSeq(an.nodes, IsHighRiskNode)
        ps == PairsInOrder(Len(hr))
        a1 == Connect(an, [k \in 1..Len(ps) |->
                       [a |-> hr[ps[k][1]].id, b |-> hr[ps[k][2]].id,
                        props |-> [value |-> 2 * W1, suspicious |-> TRUE,
                                   transactionType |-> "HighRiskConnection"]]])
        a2 == ConnectToMain(a1, [k \in 1..Len(hr) |-> hr[k].id])
    IN IF Len(hr) < 2 THEN an ELSE _connectRelatedWallets(a2)


(***************************************************************************)
(* Early participants                                                      *)
(***************************************************************************)
IsTokenTx(tx, currency) ==
    \/ /\ tx.TransactionType = "Payment"
       /\ tx.Amount.k \in {"iou", "iouNoValue"}
       /\ tx.Amount.currency = currency
    \/ /\ tx.TransactionType = "TrustSet"
       /\ tx.LimitAmount.present
       /\ tx.LimitAmount.currency = currency

\* the participants of the early transactions with the index (from 0) of the
\* transaction, in the order the forEach meets them
RECURSIVE Participants(_, _, _)
Participants(txs, address, index) ==
    IF txs = <<>> THEN <<>>
    ELSE LET tx == Head(txs)
             a == IF tx.Account # address /\ tx.Account # ""
                  THEN <<[id |-> tx.Account, position |-> index]>> ELSE <<>>
             d == IF tx.Destination # address /\ tx.Destination # ""
                  THEN <<[id |-> tx.Destination, position |-> index]>> ELSE <<>>
         IN a \o d \o Participants(Tail(txs), address, index + 1)

\* each participant once, at its first appearance
FirstAppearances(ps) ==
    LET idx == SelectSeq([k \in 1..Len(ps) |-> k],
                         LAMBDA k : \A j \in 1..(k - 1) : ps[j].id # ps[k].id)
    IN [k \in 1..Len(idx) |-> ps[idx[k]]]

EarlyRisk(position) ==
    IF position < 10 THEN 7000 - 100 * position
    ELSE IF position < 20 THEN 6000 - 100 * (position - 10)
    ELSE IF position < 30 THEN 5000 - 100 * (position - 20)
    ELSE 4000 - 20 * (position - 30)

RECURSIVE AddParticipants(_, _, _, _)
AddParticipants(an, tokenId, ps, len) ==
    IF ps = <<>> THEN an
    ELSE LET p == Head(ps)
             riskLevel == EarlyRisk(p.position)
             a1 == addNode(an, p.id, "wallet",
                       [NodeProps EXCEPT !.earlyParticipant = TRUE,
                                         !.radius = 7 * R1 + 4 * riskLevel,
                                         !.riskLevel = riskLevel,
                                         !.earlyTxInfo = p.position + 1])
             a2 == _addConnection(a1, p.id, tokenId,
                       [value |-> 2 * W1 + (3 * W1 * (len - p.position)) \div len,
                        suspicious |-> FALSE, transactionType |-> "EarlyToken"])
         IN AddParticipants(a2, tokenId, Tail(ps), len)

\* one iteration of the loop over the issued tokens, given the early
\* transactions of the address
EarlyToken(an, address, token, early) ==
    LET tokenId == TokenId(token.currency, address)
        ti == FindNode(an, tokenId)
        earlyTxs == Take(SelectSeq(early, LAMBDA tx : IsTokenTx(tx, token.currency)), 50)
        ps == FirstAppearances(Participants(earlyTxs, address, 0))
        a1 == AddParticipants(an, tokenId, ps, Len(earlyTxs))
    IN IF ti = 0 THEN an
       ELSE [a1 EXCEPT !.nodes[ti].earlyParticipantCount = Len(ps)]

\* the loop over the issued tokens
RECURSIVE EarlyTokens(_, _, _, _)
EarlyTokens(an, address, toks, early) ==
    IF toks = <<>> \/ an.nodeCount < 0 THEN an
    ELSE EarlyTokens(EarlyToken(an, address, Head(toks), early), address, Tail(toks),
                     early)

_identifyEarlyParticipants(an, L, address) ==
    LET issuedTokens == getIssuedTokens(L, address)
        early == fetchEarlyTransactions(L, address, 100)
        known == \E k \in 1..Len(issuedTokens.v) :
                    FindNode(an, TokenId(issuedTokens.v[k].currency, address)) # 0
    IN IF ~issuedTokens.ok THEN an
       \* the fetch of the first token that has a node throws: the catch
       \* ends the pass before any node or link is added
       ELSE IF known /\ ~early.ok THEN an
       ELSE EarlyTokens(an, address, issuedTokens.v, early.v)

(***************************************************************************)
(* Final risk                                                              *)
(***************************************************************************)
\* the risk a wallet node accumulated: its stored level and the bonuses of
\* the first pass
AccumulatedRisk(n) ==
    LET e == n.enh
        r0 == n.riskLevel
        r1 == IF n.hasEnh
              THEN r0 + (IF e.trustlinePosition > 0 /\ e.trustlinePosition < 10
                         THEN 2000 ELSE 0)
                      + (IF e.creatorConnection THEN 3000 ELSE 0)
                      + (e.activityRisk * 15) \div 100
                      + (e.ageRisk * 15) \div 100
                      + (e.transactionVolumeRisk * 10) \div 100
                      + (e.trustlineRisk * 20) \div 100
                      + (IF e.suspiciousConnectionsCount > 3 THEN 2500 ELSE 0)
              ELSE r0
        r2 == IF n.earlyParticipant THEN r1 + 1500 ELSE r1
    IN r2

\* a first pass without the known-high-risk override
BaseRisk_noOverride(n) == AccumulatedRisk(n)

\* the base risk of a wallet node before the clamp
BaseRisk(n) ==
    IF n.isHighRisk \/ IsKnownHighRisk(n.id) THEN One ELSE AccumulatedRisk(n)

\* Math.min(Math.max(baseRisk, 0), 1)
ClampRisk(baseRisk) == Min2(Max2(baseRisk, 0), One)

RECURSIVE SumRisk(_)
SumRisk(nodes) ==
    IF nodes = <<>> THEN 0
    ELSE IF Len(nodes) = 1 THEN nodes[1].riskLevel
    ELSE LET h == Len(nodes) \div 2
         IN SumRisk(SubSeq(nodes, 1, h)) + SumRisk(SubSeq(nodes, h + 1, Len(nodes)))

\* idToLinks.get(id) as the other end of each link, a self-loop listed twice
OtherEnds(an, id) ==
    LET src == SelectSeq(an.links, LAMBDA l : l.source = id)
        tgt == SelectSeq(an.links, LAMBDA l : l.target = id)
    IN [k \in 1..Len(src) |-> src[k].target] \o
       [k \in 1..Len(tgt) |-> IF tgt[k].source = id THEN tgt[k].target
                              ELSE tgt[k].source]

RoundDiv(a, b) == (2 * a + b) \div (2 * b)

\* a count that takes every wallet node, the main node with them
ConnectedWalletCount_all(an) ==
    Len(SelectSeq(an.nodes, LAMBDA x : x.type = "wallet"))

\* metrics.connectedWallets: the wallet nodes other than the main node
ConnectedWalletCount(an) ==
    Len(SelectSeq(an.nodes, LAMBDA x : x.type = "wallet" /\ x.id # an.mainNode))

_calculateFinalRisk(an) ==
    LET typeOf(id) == LET i == FindNode(an, id) IN IF i = 0 THEN "" ELSE an.nodes[i].type
        nodes1 == [i \in 1..Len(an.nodes) |->
                     IF an.nodes[i].type = "wallet"
                     THEN [an.nodes[i] EXCEPT !.riskLevel = ClampRisk(BaseRisk(an.nodes[i]))]
                     ELSE an.nodes[i]]
        totalRisk == an.totalRisk + SumRisk(nodes1)
        mainEnds == OtherEnds(an, an.mainNode)
        firstLevel == {mainEnds[k] : k \in 1..Len(mainEnds)} \cap
                      {id \in NodeIds(an) : typeOf(id) = "wallet"}
        interconnectionCount(id) ==
            Len(SelectSeq(OtherEnds(an, id),
                          LAMBDA o : typeOf(o) = "wallet" /\ o \in firstLevel
                                     /\ o # an.mainNode))
        bonus(id) == Min2(3000, 500 * interconnectionCount(id))
        nodes2 == [i \in 1..Len(nodes1) |->
                     IF nodes1[i].id \in firstLevel
                        /\ interconnectionCount(nodes1[i].id) > 0
                        /\ FindNode(an, nodes1[i].id) = i
                     THEN [nodes1[i] EXCEPT !.riskLevel = Min2(@ + bonus(nodes1[i].id), One)]
                     ELSE nodes1[i]]
        n == Len(an.nodes)
    IN [an EXCEPT
          !.nodes = nodes2,
          !.totalRisk = totalRisk,
          !.metrics = [riskScore |-> IF n > 0
                                     THEN RoundDiv(totalRisk * Min2(n, 10), n * 1000)
                                     ELSE 0,
                       connectedWallets |-> ConnectedWalletCount(an),
                       connectedTokens |->
                           Len(SelectSeq(an.nodes, LAMBDA x : x.type = "token")),
                       suspiciousConnections |->
                           Len(SelectSeq(an.links, LAMBDA l : l.suspicious))]]


(***************************************************************************)
(* Findings                                                                *)
(***************************************************************************)
\* Math.pow(x, 0.7), Math.pow(x, 0.8), Math.pow(x, 0.9) for x = k/20, in
\* 1/10000, rounded
Pow07 ==
    <<0, 1228, 1995, 2650, 3241, 3789, 4305, 4796, 5266, 5718, 6156, 6580,
      6994, 7397, 7791, 8176, 8554, 8925, 9289, 9647, 10000>>

Pow08 ==
    <<0, 910, 1585, 2192, 2759, 3299, 3817, 4318, 4804, 5279, 5743, 6199,
      6645, 7085, 7518, 7944, 8365, 8781, 9192, 9598, 10000>>

Pow09 ==
    <<0, 675, 1259, 1813, 2349, 2872, 3384, 3887, 4384, 4874, 5359, 5839,
      6314, 6786, 7254, 7719, 8181, 8639, 9095, 9549, 10000>>

\* Math.pow(num / den, e) for 0 <= num <= den, den > 0, read off the table of
\* e with linear interpolation between its points
Pow(num, den, table) ==
    LET k == (20 * num) \div den
        rest == 20 * num - k * den
    IN IF k >= 20 THEN table[21]
       ELSE table[k + 1] + ((table[k + 2] - table[k + 1]) * rest) \div den

\* a stable sort by descending riskLevel: each node at the place its rank
\* gives it
SortByRisk(nodes) ==
    LET n == Len(nodes)
        rank == [i \in 1..n |->
                   1 + Cardinality({j \in 1..n :
                          \/ nodes[j].riskLevel > nodes[i].riskLevel
                          \/ (nodes[j].riskLevel = nodes[i].riskLevel /\ j < i)})]
    IN [k \in 1..n |-> nodes[CHOOSE i \in 1..n : rank[i] = k]]

_calculateInterconnectionScore(an) ==
    LET wallets == SelectSeq(an.nodes, LAMBDA n : n.type = "wallet" /\ n.id # an.mainNode)
        walletIds == {wallets[k].id : k \in 1..Len(wallets)}
        walletToWalletLinks ==
            Len(SelectSeq(an.links, LAMBDA l : l.source \in walletIds
                                               /\ l.target \in walletIds))
        maxPossibleConnections == (Len(wallets) * (Len(wallets) - 1)) \div 2
    IN IF Len(wallets) < 3 THEN 0
       \* ratio / (0.2 + ratio) with ratio = links / max(1, maxPossible)
       ELSE Min2(One, (5 * walletToWalletLinks * One)
                        \div (Max2(1, maxPossibleConnections) + 5 * walletToWalletLinks))

_calculateNetworkRisk(an) ==
    LET nodes == an.nodes
        totalNodes == Len(nodes)
        highRiskNodes == SelectSeq(nodes, LAMBDA n : n.riskLevel >= 7000)
        highRiskRatio == IF totalNodes > 0 THEN Pow(Len(highRiskNodes), totalNodes, Pow08)
                         ELSE 0
        known == SelectSeq(nodes, LAMBDA n : n.type = "wallet" /\ IsKnownHighRisk(n.id))
        knownHighRiskImpact == IF Len(known) > 0
                               THEN Min2(8000, 3000 + 1000 * Len(known)) ELSE 0
        suspiciousLinks == SelectSeq(an.links, LAMBDA l : l.suspicious)
        suspiciousLinkRatio == IF Len(suspiciousLinks) > 0
                               THEN (Len(suspiciousLinks) * One) \div Max2(5, Len(an.links))
                               ELSE 0
        earlyParticipants == SelectSeq(nodes, LAMBDA n : n.earlyParticipant)
        highRiskEarly == SelectSeq(earlyParticipants, LAMBDA n : n.riskLevel >= 6000)
        earlyParticipantRiskRatio ==
            IF Len(earlyParticipants) > 0
            THEN Pow(Len(highRiskEarly), Len(earlyParticipants), Pow07) ELSE 0
        tokenNodes == SelectSeq(nodes, LAMBDA n : n.type = "token")
        highRiskTokens == SelectSeq(tokenNodes, LAMBDA n : n.riskLevel >= 6000)
        tokenRiskRatio == IF Len(tokenNodes) > 0
                          THEN Pow(Len(highRiskTokens), Len(tokenNodes), Pow09) ELSE 0
        creatorWallets == SelectSeq(nodes, LAMBDA n : n.type = "wallet" /\ n.isCreatorWallet)
        creatorRisk == IF Len(creatorWallets) > 0
                       THEN Pow(SumRisk(creatorWallets) \div Len(creatorWallets), One, Pow08)
                       ELSE 0
        interconnectionScore == _calculateInterconnectionScore(an)
        dominant == (knownHighRiskImpact * 50 + highRiskRatio * 10
                       + suspiciousLinkRatio * 15 + earlyParticipantRiskRatio * 10
                       + tokenRiskRatio * 10 + creatorRisk * 5) \div 100
        normal == (highRiskRatio * 25 + suspiciousLinkRatio * 25
                     + earlyParticipantRiskRatio * 20 + tokenRiskRatio * 15
                     + interconnectionScore * 10 + creatorRisk * 5) \div 100
    IN Min2(One, IF knownHighRiskImpact > 0
                 THEN (dominant * (2 * One + interconnectionScore)) \div (2 * One)
                 ELSE normal)

_getOverallRiskLevel(riskScore) ==
    IF riskScore >= 8000 THEN "critical"
    ELSE IF riskScore >= 6000 THEN "high"
    ELSE IF riskScore >= 4000 THEN "medium"
    ELSE "low"

\* a finding: its type, severity, the ids its details list, the count its
\* description states and, for the network assessment, details.riskScore
\* (toFixed(2), in 1/100)
Finding(type, severity, ids, count, riskScore) ==
    [type |-> type, severity |-> severity, ids |-> ids, count |-> count,
     riskScore |-> riskScore]

IdsOf(nodes) == [k \in 1..Len(nodes) |-> nodes[k].id]

\* a registry check that trusts the flag set when a neighbor is inserted
KnownHighRiskWallets_flagged(walletNodes) ==
    SelectSeq(walletNodes, LAMBDA n : n.isHighRisk)

\* the wallet nodes whose base address is in HIGH_RISK_ADDRESSES
KnownHighRiskWallets(walletNodes) ==
    SelectSeq(walletNodes, LAMBDA n : IsKnownHighRisk(n.id))

_generateFindings(an) ==
    LET walletNodes == SelectSeq(an.nodes, LAMBDA n : n.type = "wallet")
        tokenNodes == SelectSeq(an.nodes, LAMBDA n : n.type = "token")
        suspiciousLinks == SelectSeq(an.links, LAMBDA l : l.suspicious)
        highRiskConnections == SelectSeq(an.links, LAMBDA l : l.highRiskConnection)
        highRiskWallets ==
            Take(SelectSeq(SortByRisk(walletNodes), LAMBDA n : n.riskLevel >= 7000), 5)
        knownHighRiskWallets == KnownHighRiskWallets(walletNodes)
        creatorWallets == Take(SelectSeq(walletNodes, LAMBDA n : n.isCreatorWallet), 3)
        earlyParticipants ==
            Take(SortByRisk(SelectSeq(walletNodes, LAMBDA n : n.earlyParticipant)), 10)
        highRiskEarlyParticipants ==
            SelectSeq(earlyParticipants, LAMBDA n : n.riskLevel >= 6000)
        highRiskTokens ==
            SelectSeq(Take(SortByRisk(tokenNodes), 10), LAMBDA n : n.riskLevel >= 6000)
        networkRisk == _calculateNetworkRisk(an)
        one(cond, f) == IF cond THEN <<f>> ELSE <<>>
    IN [an EXCEPT !.findings =
          one(Len(highRiskWallets) > 0,
              Finding("high_risk_wallets", "high", IdsOf(highRiskWallets),
                      Len(highRiskWallets), 0))
          \o one(Len(knownHighRiskWallets) > 0,
              Finding("known_high_risk_wallets", "critical", IdsOf(knownHighRiskWallets),
                      Len(knownHighRiskWallets), 0))
          \o one(Len(creatorWallets) > 0,
              Finding("creator_wallet_identified", "high", IdsOf(creatorWallets),
                      Len(creatorWallets), 0))
          \o one(Len(highRiskEarlyParticipants) > 0,
              Finding("high_risk_early_participants", "high",
                      IdsOf(Take(highRiskEarlyParticipants, 5)),
                      Len(highRiskEarlyParticipants), 0))
          \o one(Len(highRiskTokens) > 0,
              Finding("high_risk_tokens", "high", IdsOf(highRiskTokens),
                      Len(highRiskTokens), 0))
          \o one(Len(suspiciousLinks) > 0,
              Finding("suspicious_connections", "medium",
                      [k \in 1..Len(Take(suspiciousLinks, 10)) |->
                          suspiciousLinks[k].source \o ">" \o suspiciousLinks[k].target],
                      Len(suspiciousLinks), 0))
          \o one(Len(highRiskConnections) > 0,
              Finding("high_risk_wallet_connections", "critical", <<>>,
                      Len(highRiskConnections), 0))
          \o <<Finding("network_risk_assessment", _getOverallRiskLevel(networkRisk),
                       <<>>, 1, RoundDiv(networkRisk, 100))>>]


(***************************************************************************)
(* Spec: runs of analyzeNetwork over the ledger fixtures                   *)
(***************************************************************************)
Frame(address, depth) ==
    [address |-> address, depth |-> depth, st |-> "enter", pending |-> <<>>,
     wi |-> <<>>]

\* the requested depths: absent (null), or a number
NoDepth == [given |-> FALSE, v |-> 0]

Depth(v) == [given |-> TRUE, v |-> v]

Depths == {NoDepth, Depth(0), Depth(1), Depth(3), Depth(5)}

\* Date.now() at the run
Nows == {T0 + 10 * Hour, T0 + 100 * Hour}

Ledgers ==
    {MkLedger("rS", stx, "none", "none", "none", "none", 500, fail) :
        stx \in SeedTxChoices, fail \in FailChoices}
    \cup {MkLedger("rS", stx, btx, "none", "none", btok, seq, "ok") :
        stx \in {"payB", "early"}, btx \in BTxChoices,
        btok \in {"none", "safe", "many"},
        seq \in SeqChoices}
    \cup {MkLedger("rS", stx, "none", "none", stok, "none", 500, fail) :
        stx \in {"none", "payB", "early", "payHGB"},
        stok \in {"none", "moon", "moon9", "two", "neg"},
        fail \in {"ok", "tokS", "linesS", "txB"}}
    \cup {MkLedger("rS", "payB", "busy", "none", stok, btok, 500, "ok") :
        stok \in {"moon", "mint"}, btok \in {"safe", "mint"}}
    \cup {MkLedger("rS", stx, btx, ctx, "moon", "safe", 20000, "ok") :
        stx \in {"payBC", "susp"}, btx \in BTxChoices, ctx \in CTxChoices}
    \cup {MkLedger("rS", "payBC", btx, "none", "none", btok, 500, fail) :
        btx \in {"none", "busy"}, btok \in {"none", "safe"}, fail \in {"txB", "txC"}}
    \cup {MkLedger("rS", "payB", "hold", "none", stok, "safe", 500, "ok") :
        stok \in {"none", "moon"}}
    \cup {MkLedger("rH", stx, "none", "none", stok, "none", 500, "ok") :
        stx \in {"none", "payB", "payHGB"}, stok \in {"none", "moon", "five"}}

Init ==
    /\ analyzer = reset
    /\ ledger \in Ledgers
    /\ request = [r \in Runs |-> NoRequest]
    /\ pc = [r \in Runs |-> "idle"]
    /\ stack = [r \in Runs |-> <<>>]
    /\ hist = HistInit
    /\ tick = [r \in Runs |-> 0]

\* analyzeNetwork up to its first await
analyzeNetwork(r, address, maxDepth, now) ==
    /\ pc[r] = "idle"
    /\ LET a0 == [reset EXCEPT
                    !.maxDepth = IF maxDepth.given THEN setMaxDepth(maxDepth.v) ELSE @,
                    !.mainNode = address]
       IN IF ~isValidAddress(address)
          THEN /\ analyzer' = a0
               /\ pc' = [pc EXCEPT ![r] = "rejected"]
               /\ stack' = stack
          ELSE /\ analyzer' = addNode(a0, address, "wallet",
                                  [NodeProps EXCEPT !.radius = 15 * R1, !.riskLevel = 0])
               /\ pc' = [pc EXCEPT ![r] = "expand"]
               /\ stack' = [stack EXCEPT ![r] = <<Frame(address, 0)>>]
    /\ request' = [request EXCEPT ![r] = [address |-> address, given |-> maxDepth.given,
                                          maxDepth |-> maxDepth.v, now |-> now]]
    /\ hist' = [hist EXCEPT
                    !.overlap = @ \/ \E q \in Runs \ {r} :
                                        pc[q] \notin {"idle", "done", "rejected"},
                    !.phases[r] = IF isValidAddress(address)
                                  THEN <<"validation", "seed", "expansion">>
                                  ELSE <<"validation">>]
    /\ UNCHANGED <<ledger, tick>>

\* the return of a call of _analyzeNodeConnections
Return(r) ==
    /\ stack' = [stack EXCEPT ![r] = Tail(@)]
    /\ pc' = [pc EXCEPT ![r] = IF Tail(stack[r]) = <<>> THEN "early" ELSE @]

\* an error that leaves _analyzeNodeConnections and every caller up to
\* analyzeNetwork, which rethrows it
CatchExpansionError_rethrow(r) ==
    /\ stack' = [stack EXCEPT ![r] = <<>>]
    /\ pc' = [pc EXCEPT ![r] = "rejected"]

\* the catch block of _analyzeNodeConnections: the error is logged and the
\* call returns
CatchExpansionError(r) == Return(r)

\* an expansion that leaves the visited set alone
MarkVisited_skip(an, address) == an

\* this.visitedNodes.add(address)
MarkVisited(an, address) == [an EXCEPT !.visitedNodes = @ \cup {address}]

\* _analyzeNodeConnections from its entry to the loop over connectedWallets
Enter(r) ==
    /\ pc[r] = "expand"
    /\ Head(stack[r]).st = "enter"
    /\ LET f == Head(stack[r])
           a1 == MarkVisited(analyzer, f.address)
           transactions == getAccountTransactions(ledger, f.address, 20)
           acc == ProcessTxs([an |-> a1, cw |-> <<>>, wi |-> <<>>], f.address,
                             transactions.v, request[r].now)
           a2 == _analyzeTokenConnections(acc.an, ledger, f.address)
           a3 == [a2 EXCEPT !.metrics.connectedWallets = @ + Len(acc.cw)]
       IN IF f.depth >= analyzer.maxDepth \/ analyzer.nodeCount >= analyzer.maxNodes
          THEN /\ Return(r)
               /\ UNCHANGED <<analyzer, hist>>
          ELSE /\ hist' = [hist EXCEPT
                              !.roots = Append(@, [run |-> r, id |-> f.address,
                                                   depth |-> f.depth]),
                              !.asked = @ \cup {<<r, "account_tx", f.address>>}]
               /\ IF ~transactions.ok
                  THEN /\ analyzer' = a1
                       /\ CatchExpansionError(r)
                  ELSE /\ analyzer' = a3
                       /\ stack' = [stack EXCEPT ![r] =
                              <<[f EXCEPT !.st = "loop",
                                          !.pending = IF f.depth + 1 < analyzer.maxDepth
                                                      THEN acc.cw ELSE <<>>,
                                          !.wi = acc.wi]>> \o Tail(@)]
                       /\ pc' = pc
    /\ tick' = [tick EXCEPT ![r] = 1 - @]
    /\ UNCHANGED <<ledger, request>>

\* a loop that stays on the same connected wallet
Advance_stay(f) == f

\* for (const wallet of connectedWallets): the loop moves to the next wallet
Advance(f) == [f EXCEPT !.pending = Tail(@)]

\* one iteration of the loop over connectedWallets
Neighbor(r) ==
    /\ pc[r] = "expand"
    /\ Head(stack[r]).st = "loop"
    /\ Head(stack[r]).pending # <<>>
    /\ LET f == Head(stack[r])
           wallet == Head(f.pending)
           enhancedRisk == _calculateWalletConnectionRisk(analyzer, ledger, wallet)
           initialRisk == _calculateWalletRisk(analyzer, ledger, wallet)
           interactionData == f.wi[wallet]
           isHighRisk == IsKnownHighRisk(wallet)
           a1 == addNode(analyzer, wallet, "wallet",
                     [NodeProps EXCEPT
                        !.radius = IF isHighRisk THEN 12 * R1 ELSE 8 * R1 + 2 * initialRisk,
                        !.riskLevel = IF isHighRisk THEN One ELSE initialRisk,
                        !.isHighRisk = isHighRisk,
                        \* account_data carries no TransactionHistory: the
                        \* creator check of the caller never sets the flag
                        !.isCreatorWallet = FALSE,
                        !.hasEnh = TRUE, !.enh = enhancedRisk,
                        !.hasInteraction = TRUE, !.interaction = interactionData,
                        !.pattern = _analyzeBuyingPattern(interactionData)])
           rest == Advance(f)
       IN IF wallet \notin analyzer.visitedNodes /\ analyzer.nodeCount < analyzer.maxNodes
          THEN /\ analyzer' = a1
               /\ stack' = [stack EXCEPT ![r] =
                      (IF initialRisk < 8000
                       THEN <<Frame(wallet, f.depth + 1)>> ELSE <<>>)
                      \o <<rest>> \o Tail(@)]
               /\ hist' = [hist EXCEPT
                              !.asked = @ \cup {<<r, "account_info", wallet>>},
                              !.found = @ \cup {[run |-> r, by |-> f.address, id |-> wallet,
                                                 risk |-> initialRisk]}]
          ELSE /\ analyzer' = analyzer
               /\ stack' = [stack EXCEPT ![r] = <<rest>> \o Tail(@)]
               /\ hist' = hist
    /\ tick' = [tick EXCEPT ![r] = 1 - @]
    /\ UNCHANGED <<ledger, request, pc>>

\* the end of _analyzeNodeConnections
Exit(r) ==
    /\ pc[r] = "expand"
    /\ Head(stack[r]).st = "loop"
    /\ Head(stack[r]).pending = <<>>
    /\ analyzer' = _connectHighRiskWallets(analyzer)
    /\ Return(r)
    /\ tick' = [tick EXCEPT ![r] = 1 - @]
    /\ UNCHANGED <<ledger, request, hist>>

\* an analyzeNetwork that generates the findings right after the early
\* participants and aggregates the risk last
NextStep_findingsFirst(step) ==
    CASE step = "early"    -> "findings"
      [] step = "findings" -> "final"
      [] step = "final"    -> "done"

\* the statement of analyzeNetwork that follows each of its steps
NextStep(step) ==
    CASE step = "early"    -> "final"
      [] step = "final"    -> "findings"
      [] step = "findings" -> "done"

\* await this._identifyEarlyParticipants(address)
Early(r) ==
    /\ pc[r] = "early"
    /\ analyzer' = _identifyEarlyParticipants(analyzer, ledger, request[r].address)
    /\ pc' = [pc EXCEPT ![r] = NextStep("early")]
    /\ hist' = [hist EXCEPT !.asked = @ \cup {<<r, "gateway_balances", request[r].address>>},
                            !.phases[r] = Append(@, "early")]
    /\ tick' = [tick EXCEPT ![r] = 1 - @]
    /\ UNCHANGED <<ledger, request, stack>>

\* this._calculateFinalRisk()
Final(r) ==
    /\ pc[r] = "final"
    /\ analyzer' = _calculateFinalRisk(analyzer)
    /\ pc' = [pc EXCEPT ![r] = NextStep("final")]
    /\ hist' = [hist EXCEPT !.phases[r] = Append(@, "final")]
    /\ tick' = [tick EXCEPT ![r] = 1 - @]
    /\ UNCHANGED <<ledger, request, stack>>

\* the timer callback with this._generateFindings(), and the return
Findings(r) ==
    /\ pc[r] = "findings"
    /\ analyzer' = _generateFindings(analyzer)
    /\ pc' = [pc EXCEPT ![r] = NextStep("findings")]
    /\ hist' = [hist EXCEPT !.result[r] = [given |-> TRUE, main |-> analyzer.mainNode,
                                           ids |-> NodeIds(analyzer),
                                           nodes |-> analyzer.nodes,
                                           links |-> analyzer.links,
                                           riskScore |-> analyzer.metrics.riskScore],
                            !.phases[r] = IF NextStep("findings") = "done"
                                          THEN @ \o <<"findings", "complete">>
                                          ELSE Append(@, "findings")]
    /\ tick' = [tick EXCEPT ![r] = 1 - @]
    /\ UNCHANGED <<ledger, request, stack>>

Next ==
    \/ \E address \in {ledger.seed, "bad"}, maxDepth \in Depths, now \in Nows :
          analyzeNetwork(1, address, maxDepth, now)
    \/ Enter(1)
    \/ Neighbor(1)
    \/ Exit(1)
    \/ Early(1)
    \/ Final(1)
    \/ Findings(1)

Spec == Init /\ [][Next]_vars

(***************************************************************************)
(* SpecLive: the same run when every ledger request and the timer of the   *)
(* findings eventually return or fail, so that every continuation of the   *)
(* run that is ready is eventually resumed. The call of analyzeNetwork     *)
(* itself is under no such condition.                                      *)
(***************************************************************************)
\* run r is at an await and its continuation is resumed
Resumed(r) ==
    /\ pc[r] \in {"expand", "early", "final", "findings"}
    /\ tick' = [tick EXCEPT ![r] = 1 - @]

SpecLive == Init /\ [][Next]_vars /\ WF_tick(Resumed(1))

(***************************************************************************)
(* SpecShared: two invocations of analyzeNetwork on the one analyzer       *)
(* instance. A run resumes only while the other one is not started, is     *)
(* over, or is suspended at an await: on getIssuedTokens before the early  *)
(* pass, or on the timer before the findings.                              *)
(***************************************************************************)
SharedLedgers ==
    {MkLedger("rS", stx, btx, "none", stok, "none", 500, "ok") :
        stx \in {"payB", "payBC"}, btx \in {"none", "fan"}, stok \in {"none", "moon"}}

SharedInit ==
    /\ analyzer = reset
    /\ ledger \in SharedLedgers
    /\ request = [r \in Runs |-> NoRequest]
    /\ pc = [r \in Runs |-> "idle"]
    /\ stack = [r \in Runs |-> <<>>]
    /\ hist = HistInit
    /\ tick = [r \in Runs |-> 0]

Suspended(q) == pc[q] \in {"idle", "early", "findings", "done", "rejected"}

SharedNext ==
    \E r \in Runs :
        /\ \A q \in Runs \ {r} : Suspended(q)
        /\ \/ \E address \in {ledger.seed, "rG", "bad"}, maxDepth \in {NoDepth, Depth(3)} :
                 analyzeNetwork(r, address, maxDepth, T0 + 10 * Hour)
           \/ Enter(r)
           \/ Neighbor(r)
           \/ Exit(r)
           \/ Early(r)
           \/ Final(r)
           \/ Findings(r)

SpecShared == SharedInit /\ [][SharedNext]_vars

(***************************************************************************)
(* SpecRepeat: two runs over the same ledger responses, with the same seed *)
(* and the same depth, the second one started after the first returned.    *)
(* Only the clock reading of each run is free.                             *)
(***************************************************************************)
RepeatLedgers ==
    {MkLedger("rS", stx, btx, "none", stok, "none", 500, "ok") :
        stx \in {"payBC", "odd", "tag"}, btx \in {"none", "busy"}, stok \in {"none", "moon"}}

RepeatInit ==
    /\ analyzer = reset
    /\ ledger \in RepeatLedgers
    /\ request = [r \in Runs |-> NoRequest]
    /\ pc = [r \in Runs |-> "idle"]
    /\ stack = [r \in Runs |-> <<>>]
    /\ hist = HistInit
    /\ tick = [r \in Runs |-> 0]

RepeatNext ==
    \E r \in Runs :
        /\ \A q \in Runs \ {r} : pc[q] \in {"idle", "done"}
        /\ \/ \E now \in Nows : analyzeNetwork(r, ledger.seed, NoDepth, now)
           \/ Enter(r)
           \/ Neighbor(r)
           \/ Exit(r)
           \/ Early(r)
           \/ Final(r)
           \/ Findings(r)

SpecRepeat == RepeatInit /\ [][RepeatNext]_vars


(***************************************************************************)
(* Properties                                                              *)
(***************************************************************************)
\* C1: within one run, each account id becomes an expansion root (passes
\* the guard of _analyzeNodeConnections, is marked visited and has its
\* transactions fetched) at most once, cyclic fixtures included.
C1_RootsOnce ==
    \A i, j \in 1..Len(hist.roots) :
        (hist.roots[i].run = hist.roots[j].run /\ hist.roots[i].id = hist.roots[j].id)
            => i = j

\* a completed run over a cycle: the seed paid rB, rB paid the seed back,
\* both were expanded and rB's neighbors were eligible for a further level
C1_Witness ==
    /\ pc[1] = "done"
    /\ analyzer.maxDepth = 3
    /\ \E i \in 1..Len(hist.roots) : hist.roots[i].id = "rB" /\ hist.roots[i].depth = 1
    /\ \E k \in 1..Len(TxsOf(ledger, "rB")) :
          /\ TxsOf(ledger, "rB")[k].Account = "rB"
          /\ TxsOf(ledger, "rB")[k].Destination = ledger.seed
    /\ \E k \in 1..Len(TxsOf(ledger, ledger.seed)) :
          TxsOf(ledger, ledger.seed)[k].Destination = "rB"

\* C2: at every state of a run the store holds at most maxNodes nodes and
\* at most maxNodes edges.
C2_WithinBudget ==
    /\ Len(analyzer.nodes) <= analyzer.maxNodes
    /\ Len(analyzer.links) <= analyzer.maxNodes

\* the depth a request makes effective: the default 2, or the requested
\* value clamped to 1..3
EffectiveMaxDepth(req) ==
    IF ~req.given THEN 2
    ELSE IF req.maxDepth < 1 THEN 1
    ELSE IF req.maxDepth > 3 THEN 3
    ELSE req.maxDepth

\* C3: every expansion root has a depth strictly below the effective
\* maxDepth of its run.
C3_DepthBelowMax ==
    \A i \in 1..Len(hist.roots) :
        hist.roots[i].depth < EffectiveMaxDepth(request[hist.roots[i].run])

\* a completed run that asked for depth 5 and expanded an account at depth 2
C3_Witness ==
    /\ pc[1] = "done"
    /\ request[1].given
    /\ request[1].maxDepth = 5
    /\ \E i \in 1..Len(hist.roots) : hist.roots[i].depth = 2

\* C4: no two nodes of the store have the same id, and nodeCount counts the
\* nodes: an addNode of an id already present adds no node and leaves
\* nodeCount as it was.
C4_UniqueIds ==
    /\ \A i, j \in 1..Len(analyzer.nodes) :
          analyzer.nodes[i].id = analyzer.nodes[j].id => i = j
    /\ analyzer.nodeCount = Len(analyzer.nodes)

\* the seed was added again, as an early participant, beside a second node
C4_Witness ==
    /\ Len(analyzer.nodes) = 2
    /\ analyzer.nodes[1].id = "rS"
    /\ analyzer.nodes[1].earlyParticipant
    /\ analyzer.nodeCount = 2

\* C5: for every unordered pair of node ids there is at most one edge,
\* whichever orientation the calls used.
C5_OneEdgePerPair ==
    \A p \in StorePairs : Cardinality(LinksOf(analyzer, p)) <= 1

\* a pair submitted in both orientations and joined by one edge
C5_Witness ==
    \E p \in StorePairs :
        /\ Cardinality(hist.subO[p]) = 2
        /\ Cardinality(LinksOf(analyzer, p)) = 1

\* C6: the stored weight of an edge equals the maximum of the weights
\* submitted for its pair.
C6_WeightIsMax ==
    \A p \in StorePairs :
        \A i \in LinksOf(analyzer, p) :
            analyzer.links[i].value = SetMax(hist.subW[p])

\* C7: the stored suspicious flag of an edge is true exactly when one of
\* the calls on its pair submitted suspicious = true.
C7_SuspiciousIsOr ==
    \A p \in StorePairs :
        \A i \in LinksOf(analyzer, p) :
            analyzer.links[i].suspicious <=> (TRUE \in hist.subS[p])

\* an edge whose pair was submitted both with and without the flag
C7_Witness ==
    \E p \in StorePairs :
        /\ hist.subS[p] = {TRUE, FALSE}
        /\ \E i \in LinksOf(analyzer, p) : analyzer.links[i].suspicious

\* C8: after the final pass every account node whose base address is on
\* the known-high-risk list has riskLevel 1.0.
C8_KnownHighRiskIsOne ==
    pc[1] \in {"findings", "done"} =>
        \A i \in 1..Len(analyzer.nodes) :
            (analyzer.nodes[i].type = "wallet" /\ IsKnownHighRisk(analyzer.nodes[i].id))
                => analyzer.nodes[i].riskLevel = One

\* a completed run whose graph holds a listed account that entered as an
\* early participant, with the position-based level, beside a listed
\* neighbor found during expansion
C8_Witness ==
    /\ pc[1] = "done"
    /\ \E i \in 1..Len(analyzer.nodes) :
          /\ IsKnownHighRisk(analyzer.nodes[i].id)
          /\ analyzer.nodes[i].earlyParticipant
          /\ ~analyzer.nodes[i].isHighRisk
          /\ analyzer.nodes[i].riskLevel = One

\* C9: every stored riskLevel lies in [0, 1], at insertion and after the
\* final pass.
C9_RiskInUnitInterval ==
    \A i \in 1..Len(analyzer.nodes) :
        /\ analyzer.nodes[i].riskLevel >= 0
        /\ analyzer.nodes[i].riskLevel <= One

\* a completed run over a seed that issued a token with a negative amount,
\* whose uncapped score exceeds 1
C9_Witness ==
    /\ pc[1] = "done"
    /\ \E k \in 1..Len(getIssuedTokens(ledger, ledger.seed).v) :
          LET token == getIssuedTokens(ledger, ledger.seed).v[k]
          IN /\ jsLt(token.amount, 0)
             /\ TokenRiskSum(analyzer, token, ledger.seed) > One
             /\ FindNode(analyzer, TokenId(token.currency, ledger.seed)) # 0

\* scenario 2: the seed's only transaction is one Payment to rB below the
\* large-amount threshold, rB is not listed and has sufficient activity,
\* neither account issued a token, no request fails and the run uses the
\* default depth
Scenario2 ==
    LET txs == TxsOf(ledger, ledger.seed)
    IN /\ request[1].address = ledger.seed
       /\ ~request[1].given
       /\ ~IsKnownHighRisk(ledger.seed)
       /\ Len(txs) = 1
       /\ txs[1].TransactionType = "Payment"
       /\ txs[1].Destination = "rB"
       /\ jsLt(_normalizeAmount(txs[1].Amount),
               RISK_FACTORS_transaction_largeAmount_threshold * W1)
       /\ ~IsKnownHighRisk("rB")
       /\ Len(TxsOf(ledger, "rB")) >= RISK_FACTORS_wallet_lowActivity_threshold
       /\ getIssuedTokens(ledger, ledger.seed) = Ok(<<>>)
       /\ getIssuedTokens(ledger, "rB") = Ok(<<>>)
       /\ FailSets(ledger.fail) = {}

\* C10: a completed run of scenario 2 yields exactly the nodes seed and rB,
\* exactly one edge, joining them, not suspicious, and rB below 0.5.
C10_Scenario2Graph ==
    (pc[1] = "done" /\ Scenario2) =>
        /\ Len(analyzer.nodes) = 2
        /\ NodeIds(analyzer) = {ledger.seed, "rB"}
        /\ Len(analyzer.links) = 1
        /\ {analyzer.links[1].source, analyzer.links[1].target} = {ledger.seed, "rB"}
        /\ ~analyzer.links[1].suspicious
        /\ analyzer.nodes[FindNode(analyzer, "rB")].riskLevel < 5000

\* a completed run with the default depth over a ledger without outages
CleanDefaultRun ==
    /\ pc[1] = "done"
    /\ request[1].address = ledger.seed
    /\ ~request[1].given
    /\ FailSets(ledger.fail) = {}

\* the listed accounts, other than the seed, that the seed's transactions
\* pay
ListedCounterparties ==
    LET txs == TxsOf(ledger, ledger.seed)
    IN {txs[k].Destination : k \in {i \in 1..Len(txs) :
            /\ txs[i].TransactionType = "Payment"
            /\ txs[i].Account = ledger.seed
            /\ txs[i].Destination # ledger.seed
            /\ IsKnownHighRisk(txs[i].Destination)}}

\* C11: in a completed run, every listed account the seed transacts with
\* is joined to the seed by an edge with suspicious = true.
C11_ListedJoinedToSeed ==
    CleanDefaultRun =>
        \A a \in ListedCounterparties :
            \E i \in 1..Len(analyzer.links) :
                /\ {analyzer.links[i].source, analyzer.links[i].target} = {a, ledger.seed}
                /\ analyzer.links[i].suspicious

\* the findings of a type
FindingsOf(type) == SelectSeq(analyzer.findings, LAMBDA f : f.type = type)

\* the ids of the account nodes whose base address is listed
ListedNodeIds ==
    {analyzer.nodes[i].id : i \in {k \in 1..Len(analyzer.nodes) :
        analyzer.nodes[k].type = "wallet" /\ IsKnownHighRisk(analyzer.nodes[k].id)}}

\* C12: after a completed run there is a known_high_risk_wallets finding
\* exactly when some account node is listed, and its details list every
\* listed node.
C12_KnownFindingIffListed ==
    pc[1] = "done" =>
        LET fs == FindingsOf("known_high_risk_wallets")
        IN /\ (Len(fs) > 0) <=> (ListedNodeIds # {})
           /\ Len(fs) <= 1
           /\ \A k \in 1..Len(fs) :
                 {fs[k].ids[j] : j \in 1..Len(fs[k].ids)} = ListedNodeIds

\* a completed run from a listed seed whose finding lists the seed and a
\* listed neighbor
C12_Witness ==
    /\ pc[1] = "done"
    /\ IsKnownHighRisk(request[1].address)
    /\ Len(FindingsOf("known_high_risk_wallets")) = 1
    /\ Cardinality(ListedNodeIds) >= 2
    /\ request[1].address \in ListedNodeIds

\* scenario 4: the seed has issued one asset, with a denylisted code and an
\* amount below the holder threshold, and no request fails
Scenario4 ==
    LET toks == getIssuedTokens(ledger, ledger.seed)
    IN /\ request[1].address = ledger.seed
       /\ FailSets(ledger.fail) = {}
       /\ toks.ok
       /\ Len(toks.v) = 1
       /\ HasSuspiciousName(toks.v[1].currency)
       /\ jsLt(toks.v[1].amount, RISK_FACTORS_token_limitedHolders_threshold)

\* the asset node of scenario 4 carries min(1, name penalty + low-holder
\* penalty)
Scenario4Risk ==
    LET token == getIssuedTokens(ledger, ledger.seed).v[1]
        i == FindNode(analyzer, TokenId(token.currency, ledger.seed))
        thr == RISK_FACTORS_token_limitedHolders_threshold
    IN /\ i # 0
       /\ analyzer.nodes[i].riskLevel
            = Min2(One, 4000 + (8000 - (8000 * token.amount) \div thr))

\* C13: a completed run of scenario 4 stores min(1, name penalty +
\* low-holder penalty) on the asset node and reports the asset in a
\* high_risk_tokens finding.
C13_Scenario4 ==
    (pc[1] = "done" /\ Scenario4) =>
        /\ Scenario4Risk
        /\ \E k \in 1..Len(analyzer.findings) :
              /\ analyzer.findings[k].type = "high_risk_tokens"
              /\ \E j \in 1..Len(analyzer.findings[k].ids) :
                    analyzer.findings[k].ids[j]
                      = TokenId(getIssuedTokens(ledger, ledger.seed).v[1].currency,
                                ledger.seed)

\* scenario 1: a valid seed without transactions and without issued assets
Scenario1 ==
    /\ request[1].address = ledger.seed
    /\ TxsOf(ledger, ledger.seed) = <<>>
    /\ ledger.stok = "none"

\* the graph and the figures scenario 1 expects
Scenario1Outcome ==
    /\ Len(analyzer.nodes) = 1
    /\ analyzer.nodes[1].id = ledger.seed
    /\ Len(analyzer.links) = 0
    /\ analyzer.metrics.connectedWallets = 0
    /\ analyzer.metrics.connectedTokens = 0
    /\ analyzer.metrics.riskScore = 0
    /\ \A k \in 1..Len(analyzer.findings) :
          analyzer.findings[k].type = "network_risk_assessment"
              => analyzer.findings[k].riskScore = 0

\* C14 as stated: a completed run of scenario 1 yields the seed alone, no
\* edge, connectedWallets = 0, connectedTokens = 0 and risk score 0.
C14_Scenario1_AsStated ==
    (pc[1] = "done" /\ Scenario1) => Scenario1Outcome

\* C14: a completed run of scenario 1 from a seed that is not on the
\* known-high-risk list yields the seed alone, no edge, connectedWallets = 0,
\* connectedTokens = 0 and risk score 0.
C14_Scenario1_Unlisted ==
    (pc[1] = "done" /\ Scenario1 /\ ~IsKnownHighRisk(ledger.seed)) => Scenario1Outcome

\* a completed run of scenario 1 from an unlisted seed
C14_Witness ==
    /\ pc[1] = "done"
    /\ Scenario1
    /\ ~IsKnownHighRisk(ledger.seed)
    /\ Len(analyzer.nodes) = 1
    /\ Len(analyzer.findings) = 1

\* C15: after a completed run the findings hold exactly one
\* network_risk_assessment, whose severity is the band of the score its
\* details report.
C15_OneAssessmentConsistent ==
    pc[1] = "done" =>
        LET fs == FindingsOf("network_risk_assessment")
        IN /\ Len(fs) = 1
           /\ fs[1].severity = _getOverallRiskLevel(fs[1].riskScore * 100)

\* C16: a run on a malformed seed address is rejected before any ledger
\* request, and leaves no node, no edge and no finding.
C16_MalformedRejected ==
    (pc[1] # "idle" /\ request[1].address \notin Accts) =>
        /\ pc[1] = "rejected"
        /\ \A q \in hist.asked : q[1] # 1
        /\ analyzer.nodes = <<>>
        /\ analyzer.links = <<>>
        /\ analyzer.findings = <<>>

\* a run on the malformed address that was rejected
C16_Witness ==
    /\ pc[1] = "rejected"
    /\ request[1].address = "bad"
    /\ analyzer.mainNode = "bad"

\* the accounts, other than the seed, that the seed's fetched transactions
\* pay
SeedNeighbors ==
    LET txs == Take(TxsOf(ledger, ledger.seed), 20)
    IN {txs[k].Destination : k \in {i \in 1..Len(txs) :
            /\ txs[i].TransactionType = "Payment"
            /\ txs[i].Destination \notin {"", ledger.seed}}}

\* the expansions of run 1 whose transaction fetch fails
FailedRoots ==
    {hist.roots[i].id : i \in {k \in 1..Len(hist.roots) :
        Failing(ledger, "account_tx", hist.roots[k].id)}}

\* a run with the default depth whose seed fetch succeeded has left the
\* traversal within its node budget
TraversalOver ==
    /\ pc[1] \in {"early", "final", "findings", "done"}
    /\ request[1].address = ledger.seed
    /\ ~request[1].given
    /\ ~Failing(ledger, "account_tx", ledger.seed)
    /\ analyzer.nodeCount < analyzer.maxNodes

\* every neighbor of the seed was scored and added, and expanded unless its
\* initial risk forbade it
SiblingsHandled ==
    \A w \in SeedNeighbors :
        LET i == FindNode(analyzer, w)
        IN /\ i # 0
           /\ analyzer.nodes[i].hasEnh
           /\ (pc[1] = "early" /\ analyzer.nodes[i].riskLevel < 8000)
                 => \E k \in 1..Len(hist.roots) :
                       hist.roots[k].id = w /\ hist.roots[k].depth = 1

\* C17: a failed fetch inside an expansion does not leave the traversal:
\* a run on a valid seed is never rejected, the siblings of a failing
\* account are still scored, added and expanded, and the completed run
\* holds findings.
C17_FailureStaysLocal ==
    /\ (request[1].address \in Accts) => pc[1] # "rejected"
    /\ TraversalOver => SiblingsHandled
    /\ pc[1] = "done" => analyzer.findings # <<>>

\* a completed run in which the expansion of rC failed and its sibling rB,
\* met after it, was added and expanded
C17_Witness ==
    /\ pc[1] = "done"
    /\ "rC" \in FailedRoots
    /\ ~request[1].given
    /\ \E j, k \in 1..Len(hist.roots) :
          /\ hist.roots[j].id = "rC"
          /\ hist.roots[k].id = "rB"
          /\ j < k
    /\ FindNode(analyzer, "rB") # 0
    /\ analyzer.findings # <<>>

\* the accounts a transaction names
PartiesOf(tx) ==
    ({tx.Account, tx.Destination}
       \cup (IF tx.LimitAmount.present THEN {tx.LimitAmount.issuer} ELSE {})) \ {""}

\* the accounts within k steps of the transactions of a
RECURSIVE Within(_, _)
Within(S, k) ==
    IF k = 0 THEN S
    ELSE Within(S \cup UNION {UNION {PartiesOf(TxsOf(ledger, x)[i]) :
                                       i \in 1..Len(TxsOf(ledger, x))} : x \in S},
                k - 1)

\* the node ids a run on address can discover: the accounts within the
\* largest depth of it and the tokens they issued
Discoverable(address) ==
    LET accounts == Within({address}, 3)
    IN accounts \cup UNION {{TokenId(getIssuedTokens(ledger, x).v[i].currency, x) :
                               i \in 1..Len(getIssuedTokens(ledger, x).v)} : x \in accounts}

\* C18: what a run returns holds only what that run discovered: its own
\* seed as the main node and node ids reachable from that seed, whatever
\* the schedule of the two invocations.
C18_RunsIsolated ==
    \A r \in Runs :
        hist.result[r].given =>
            /\ hist.result[r].main = request[r].address
            /\ request[r].address \in hist.result[r].ids
            /\ hist.result[r].ids \subseteq Discoverable(request[r].address)

\* the same for the schedules in which no run is requested while the other
\* one is under way
IsolatedWhenSequential == hist.overlap \/ C18_RunsIsolated

\* the steps of a successful run
PhaseOrder ==
    <<"validation", "seed", "expansion", "early", "final", "findings", "complete">>

IsPrefix(s, t) == Len(s) <= Len(t) /\ SubSeq(t, 1, Len(s)) = s

Began(r, phase) == \E i \in 1..Len(hist.phases[r]) : hist.phases[r][i] = phase

\* C19: the steps a run has begun are always an initial part of validation,
\* seed insertion, expansion, early participants, final risk, findings,
\* complete, and a successful run has begun them all; there is no finding
\* and no aggregated risk figure before the final risk pass has run, the
\* final risk pass comes after the early-participant pass, and a failed run
\* has neither begun the findings nor produced one.
C19_PhasesInOrder ==
    /\ IsPrefix(hist.phases[1], PhaseOrder)
    /\ pc[1] = "done" => hist.phases[1] = PhaseOrder
    /\ analyzer.findings # <<>> => Began(1, "final") /\ Began(1, "findings")
    /\ Began(1, "final") => Began(1, "early")
    /\ ~Began(1, "final") => analyzer.metrics.riskScore = 0 /\ analyzer.totalRisk = 0
    /\ pc[1] = "rejected" => hist.phases[1] = <<"validation">> /\ analyzer.findings = <<>>

\* a successful run over a graph whose risk is not zero, with its findings
C19_Witness ==
    /\ pc[1] = "done"
    /\ hist.phases[1] = PhaseOrder
    /\ analyzer.metrics.riskScore > 0
    /\ Len(analyzer.findings) >= 2

\* a run that is under way has a continuation to resume
Ready(r) ==
    pc[r] = "expand" => /\ stack[r] # <<>>
                        /\ Head(stack[r]).st \in {"enter", "loop"}

\* C20: a run that is under way can always go on, and a run that was started eventually resolves with the graph or
\* rejects with an error, whatever the fixture: payments in both
\* directions between two accounts and self-payments included.
C20_Terminates ==
    /\ [](pc[1] \in {"expand", "early", "final", "findings"} => Ready(1))
    /\ (pc[1] # "idle") ~> (pc[1] \in {"done", "rejected"})

\* some account other than the seed pays the seed it was paid by, or the
\* seed pays itself
CyclicFixture ==
    \/ \E a \in {"rB", "rC"} :
          /\ \E i \in 1..Len(TxsOf(ledger, ledger.seed)) :
                TxsOf(ledger, ledger.seed)[i].Destination = a
          /\ \E i \in 1..Len(TxsOf(ledger, a)) :
                /\ TxsOf(ledger, a)[i].Account = a
                /\ TxsOf(ledger, a)[i].Destination = ledger.seed
    \/ \E i \in 1..Len(TxsOf(ledger, ledger.seed)) :
          /\ TxsOf(ledger, ledger.seed)[i].Account = ledger.seed
          /\ TxsOf(ledger, ledger.seed)[i].Destination = ledger.seed

\* a run over such a fixture has resolved after expanding the seed and a
\* counterparty
C20_Witness ==
    /\ pc[1] = "done"
    /\ CyclicFixture
    /\ Len(hist.roots) >= 2

\* C21: two runs over the same ledger responses with the same seed and the
\* same depth return the same nodes with the same attributes, the same
\* edges and the same risk score.
C21_Deterministic ==
    (hist.result[1].given /\ hist.result[2].given) =>
        /\ hist.result[1].nodes = hist.result[2].nodes
        /\ hist.result[1].links = hist.result[2].links
        /\ hist.result[1].riskScore = hist.result[2].riskScore

\* the same when the two runs read the same clock value
SameClockDeterministic == request[1].now # request[2].now \/ C21_Deterministic

\* some edge of the graph joins a and b
Joined(a, b) ==
    \E i \in 1..Len(analyzer.links) :
        {analyzer.links[i].source, analyzer.links[i].target} = {a, b}

\* C22: for every neighbor that the expansion of account A added as a node,
\* the completed graph holds an edge between A and that neighbor.
C22_DroppedEdgeReadded ==
    pc[1] = "done" => \A d \in hist.found : Joined(d.by, d.id)

\* C23: in the completed graph every two distinct known-high-risk account
\* nodes are joined by an edge, and every known-high-risk account node
\* other than the seed is joined to the seed.
C23_HighRiskEnriched ==
    pc[1] = "done" =>
        /\ \A a, b \in ListedNodeIds : a # b => Joined(a, b)
        /\ \A a \in ListedNodeIds \ {ledger.seed} : Joined(a, ledger.seed)

\* the same for the graphs that hold two known-high-risk account nodes or
\* more, all of them found by the expansion
EnrichedFromTwo ==
    (pc[1] = "done" /\ Cardinality(ListedNodeIds) >= 2
       /\ \A a \in ListedNodeIds \ {ledger.seed} : \E d \in hist.found : d.id = a)
    => /\ \A a, b \in ListedNodeIds : a # b => Joined(a, b)
       /\ \A a \in ListedNodeIds \ {ledger.seed} : Joined(a, ledger.seed)

\* the id is the root of some expansion of run 1
IsRoot(id) == \E i \in 1..Len(hist.roots) : hist.roots[i].run = 1 /\ hist.roots[i].id = id

\* the neighbors found with an immediate risk of 0.8 or more are not
\* expanded, and their nodes are in the graph
HighRiskNotExpanded ==
    \A d \in hist.found :
        d.risk >= 8000 => /\ ~IsRoot(d.id)
                          /\ d.id \in NodeIds(analyzer)

\* C24: a neighbor whose immediate risk is 0.8 or more is never an
\* expansion root of the run, its node is in the graph, and the completed
\* graph holds an edge between the account that discovered it and it.
C24_HighRiskRecordedNotExpanded ==
    /\ HighRiskNotExpanded
    /\ pc[1] = "done" => \A d \in hist.found : d.risk >= 8000 => Joined(d.by, d.id)

\* the early participants of the asset of that currency issued by a: the
\* counterparties of a's earliest transactions that concern the asset
EarlyParticipantsOf(a, currency) ==
    LET early == fetchEarlyTransactions(ledger, a, 100).v
        earlyTxs == Take(SelectSeq(early, LAMBDA tx : IsTokenTx(tx, currency)), 50)
        ps == Participants(earlyTxs, a, 0)
    IN {ps[k].id : k \in 1..Len(ps)}

\* the asset nodes of a are covered: each early participant is a node with
\* the early-participant flag and is joined to the asset
AssetsCovered(a) ==
    \A k \in 1..Len(getIssuedTokens(ledger, a).v) :
        LET currency == getIssuedTokens(ledger, a).v[k].currency
            tokenId == TokenId(currency, a)
        IN tokenId \in NodeIds(analyzer) =>
              \A p \in EarlyParticipantsOf(a, currency) :
                  /\ p \in NodeIds(analyzer)
                  /\ analyzer.nodes[FindNode(analyzer, p)].earlyParticipant
                  /\ Joined(p, tokenId)

\* C25: when every request succeeds, the early-participant pass covers
\* every asset node of the completed graph, whether the seed or an expanded
\* neighbor issued it.
C25_EveryAssetCovered ==
    (pc[1] = "done" /\ ledger.fail = "ok") =>
        \A a \in {ledger.seed, "rB", "rC"} : AssetsCovered(a)

\* the same for the assets the seed issued
SeedAssetsCovered ==
    (pc[1] = "done" /\ ledger.fail = "ok") => AssetsCovered(ledger.seed)

\* the risk score of an issuer account in the completed graph: 1.0 when it
\* is known high risk, the riskLevel of its node otherwise
IssuerRisk(a) ==
    IF IsKnownHighRisk(a) THEN One
    ELSE IF FindNode(analyzer, a) = 0 THEN 0
    ELSE analyzer.nodes[FindNode(analyzer, a)].riskLevel

\* name penalty + low-holder penalty + 30% of the issuer's risk, capped at 1
ExpectedAssetRisk(token, a) ==
    LET thr == RISK_FACTORS_token_limitedHolders_threshold
        name == IF HasSuspiciousName(token.currency) THEN 4000 ELSE 0
        few == IF jsLt(token.amount, thr) THEN 8000 - (8000 * token.amount) \div thr ELSE 0
    IN Min2(One, name + few + (IssuerRisk(a) * 3) \div 10)

\* the asset nodes issued by a carry the expected risk
AssetRiskIncludesIssuer(a) ==
    \A k \in 1..Len(getIssuedTokens(ledger, a).v) :
        LET token == getIssuedTokens(ledger, a).v[k]
            i == FindNode(analyzer, TokenId(token.currency, a))
        IN (i # 0 /\ \A j \in 1..(k - 1) :
                        getIssuedTokens(ledger, a).v[j].currency # token.currency)
           => analyzer.nodes[i].riskLevel = ExpectedAssetRisk(token, a)

\* C26: every asset node of a completed run has riskLevel = min(1, name
\* penalty + low-holder penalty + 0.3 x the issuer's risk), a
\* known-high-risk issuer counting for 1.0, the seed included.
C26_AssetInheritsIssuerRisk ==
    pc[1] = "done" => \A a \in {ledger.seed, "rB", "rC"} : AssetRiskIncludesIssuer(a)

\* the neighbor nodes scored by _calculateWalletConnectionRisk
ScoredNodes == {i \in 1..Len(analyzer.nodes) : analyzer.nodes[i].hasEnh}

\* the sub-scores that take the placeholder when their fetch fails: the age
\* and activity sub-scores and the immediate risk of the neighbor
PlaceholderOnAgeActivityBase ==
    /\ \A i \in ScoredNodes :
          LET n == analyzer.nodes[i]
          IN /\ Failing(ledger, "account_info", n.id) => n.enh.ageRisk = 5000
             /\ Failing(ledger, "account_tx", n.id) => n.enh.activityRisk = 5000
    /\ \A d \in hist.found :
          (~IsKnownHighRisk(d.id)
             /\ \E c \in {"account_info", "account_tx", "account_currencies"} :
                   Failing(ledger, c, d.id))
          => d.risk = 5000

\* C27: whenever the fetch behind one of a neighbor's risk inputs fails
\* (account info, recent transactions, trustlines of the main node), the
\* sub-scores that depend on it are the placeholder 0.5: the age risk, the
\* activity and transaction-volume risks, the trust-line risk, and the
\* immediate (base) risk.
C27_PlaceholderOnFailure ==
    /\ PlaceholderOnAgeActivityBase
    /\ \A i \in ScoredNodes :
          LET n == analyzer.nodes[i]
          IN /\ Failing(ledger, "account_tx", n.id) => n.enh.transactionVolumeRisk = 5000
             /\ Failing(ledger, "account_lines", analyzer.mainNode)
                   => n.enh.trustlineRisk = 5000

\* every ledger request fails
Unreachable == FailSets(ledger.fail) = FailSets("all")

\* C28: when every ledger request of the run fails, starting with the
\* seed's transaction fetch, analyzeNetwork does not resolve with a graph.
C28_UnreachableRejects ==
    Unreachable => pc[1] # "done" /\ ~hist.result[1].given

\* the edges the pairing step of _connectHighRiskWallets created
PairingEdges ==
    {i \in 1..Len(analyzer.links) : analyzer.links[i].transactionType = "HighRiskConnection"}

\* C29: whenever the completed graph holds an edge created by the pairing
\* of two known-high-risk accounts, the findings hold one
\* high_risk_wallet_connections finding whose connection count is the
\* number of such edges.
C29_PairingEdgesReported ==
    (pc[1] = "done" /\ PairingEdges # {}) =>
        /\ Len(FindingsOf("high_risk_wallet_connections")) = 1
        /\ FindingsOf("high_risk_wallet_connections")[1].count = Cardinality(PairingEdges)

\* the node an addNode on a stored id leaves: the old node, with the flag
\* set, the description replaced and the radius raised to newRadius when
\* the new attributes carry the early-participant flag
Promoted(old, props, newRadius) ==
    IF props.earlyParticipant
    THEN [old EXCEPT !.earlyParticipant = TRUE,
                     !.earlyTxInfo = props.earlyTxInfo,
                     !.radius = Max2(old.radius, newRadius)]
    ELSE old

\* the nodes that were stored before the last addNode on a stored id are
\* the same now, except that the node of that id is promoted
ReAddLeaves(newRadius) ==
    LET b == hist.last.before
        i == FindNode(b, hist.last.id)
    IN /\ Len(analyzer.nodes) >= Len(b.nodes)
       /\ SubSeq(analyzer.nodes, 1, Len(b.nodes))
            = [b.nodes EXCEPT ![i] = Promoted(@, hist.last.props, newRadius)]
       /\ analyzer.nodeCount = Len(analyzer.nodes)
       /\ analyzer.nodes[i].radius >= b.nodes[i].radius
       /\ b.nodes[i].earlyParticipant => analyzer.nodes[i].earlyParticipant

====
